---- MODULE Spec2Model ----
(***************************************************************************)
(* Verification model of two BeRTOS/DevLib subsystems:                     *)
(*   - the keyboard driver (handler chains, key state machines, the        *)
(*     single-entry key buffer and its consumer API), and                  *)
(*   - the stack monitor (process registry, stack scan, monitor loop).     *)
(* Each subsystem has its own specification (Init/Next pair) over the      *)
(* common variables; the variables a specification does not use keep       *)
(* their initial value.                                                    *)
(***************************************************************************)
EXTENDS Integers, Sequences, FiniteSets, TLC

(***************************************************************************)
(* Key masks.  keymask_t is a bit field: a mask is modelled as the set of  *)
(* its bits, so that & is \cap, | is \cup and 0 is {}.                     *)
(***************************************************************************)
K_REPEAT   == {"K_REPEAT"}
K_RPT_MASK == {"K_UP", "K_DOWN"}
K_LNG_MASK == {"K_ESC"}
KeyBits    == {"K_UP", "K_DOWN", "K_OK", "K_ESC"}
NoKey      == {}

(* Timing constants of the keyboard driver (ms). *)
KBD_CHECK_INTERVAL == 10
KBD_DEBOUNCE_TIME  == 30
KBD_REPEAT_DELAY   == 400
KBD_REPEAT_RATE    == 100
KBD_REPEAT_MAXRATE == 20
KBD_REPEAT_ACCEL   == 5
KBD_LNG_DELAY      == 1000

(***************************************************************************)
(* Tick arithmetic.  ticks_t is a signed TICK_BITS-bit integer; + and - on *)
(* it wrap around.  The two operations are computed on the high and low    *)
(* halves of the operands so that no intermediate value leaves the range   *)
(* of the integers the model checker computes with.                        *)
(***************************************************************************)
TICK_BITS == 32
Half      == 2 ^ (TICK_BITS \div 2)
TickMax   == ((Half \div 2) - 1) * Half + (Half - 1)
TickMin   == -TickMax - 1
Hi(x)     == x \div Half
Lo(x)     == x % Half
WrapHi(h) == LET r == h % Half IN IF r >= Half \div 2 THEN r - Half ELSE r
TickAdd(a, b) ==
  LET lo == Lo(a) + Lo(b) IN WrapHi(Hi(a) + Hi(b) + (lo \div Half)) * Half + (lo % Half)
TickSub(a, b) ==
  LET lo == Lo(a) - Lo(b) IN WrapHi(Hi(a) - Hi(b) + (lo \div Half)) * Half + (lo % Half)
TICKS_PER_MSEC == 1
ms_to_ticks(ms) == ms * TICKS_PER_MSEC
(* Values of the tick counter at start-up that the model explores: 0 and a *)
(* value just below the point where the counter wraps.                     *)
ClockStarts == {0, TickMax - 1}

(***************************************************************************)
(* Handlers.  The driver's own handlers are static objects; UserHandlers   *)
(* are the handlers an application may register.                           *)
(***************************************************************************)
KHF_RAWKEYS  == "KHF_RAWKEYS"
SysHandlers  == {"kbd_debHandler", "kbd_lngHandler", "kbd_rptHandler", "kbd_defHandler"}
UserHandlers == {"h1", "h2", "h3"}
Handlers     == SysHandlers \cup UserHandlers
Pris         == {-128, 0, 80, 100}

VARIABLES
  (* keyboard handler chains *)
  kbd_rawHandlers,   \* raw handler list, head first
  kbd_handlers,      \* cooked handler list, head first
  pri,               \* handler -> its pri field
  flags,             \* handler -> its flags field (a set of flag names)
  arrival,           \* history: registered handlers in order of kbd_addHandler calls
  lastAdded          \* history: handler linked by the latest kbd_addHandler ("" if none)

chainVars == <<kbd_rawHandlers, kbd_handlers, pri, flags, arrival, lastAdded>>

VARIABLES
  (* key buffer, interrupt flag, clock *)
  kbd_buf,           \* single entry keyboard buffer
  kbd_cnt,           \* number of keypress events in kbd_buf
  beeped,            \* whether the latest kbd_defHandlerFunc call called buz_beep
  irq,               \* TRUE iff interrupts are enabled
  clock,             \* timer_clock()
  (* the consumer task *)
  pc,                \* position of the consumer task
  api,               \* the API function the consumer is in ("none" outside)
  key,               \* local key of kbd_peek / kbd_get / kbd_get_timeout
  start,             \* local start of kbd_get_timeout
  stop,              \* local stop of kbd_get_timeout
  ret,               \* value returned by the call that has just returned
  (* history *)
  wval,              \* the masks written to the buffer, in order (write i wrote wval[i])
  buf_id,            \* index in wval of the write kbd_buf holds (0: none)
  key_id,            \* index in wval of the write key was read from (0: none)
  overwritten,       \* writes replaced in the buffer by a later write while unread
  returned,          \* writes some kbd_peek has returned
  dupRet,            \* TRUE once a write has been returned by two kbd_peek calls
  entry,             \* kbd_cnt and buf_id when kbd_peek passed IRQ_DISABLE
  elapsed,           \* ticks since start-up
  gt_el,             \* elapsed when kbd_get_timeout read start
  polled             \* whether the current call has completed a kbd_peek

bufVars == <<kbd_buf, kbd_cnt, beeped, irq, clock>>
conVars == <<pc, api, key, start, stop, ret>>
bufHist == <<wval, buf_id, key_id, overwritten, returned, dupRet, entry, elapsed, gt_el, polled>>

VARIABLES
  (* statics of kbd_debHandlerFunc *)
  debounce_key,      \* buffer for debounce
  debounce_time,     \* timer for keyboard debounce
  new_key,           \* key acquired after debounce
  (* statics of the repeat state machine *)
  kbd_rptStatus,     \* KS_IDLE, KS_REPDELAY or KS_REPEAT
  repeat_time,       \* timer for keyboard repeat events
  repeat_rate,       \* current repeat rate
  (* history of the handler calls *)
  in_key,            \* mask passed to the latest handler call
  prev_in,           \* mask passed to the call before it
  streak_el,         \* elapsed at the first call of the current run of equal masks
  out_key,           \* mask returned by the latest handler call
  prev_out,          \* mask returned by the call before it
  call_el,           \* elapsed at the latest handler call (-1: no call yet)
  held,              \* every call so far carried repeat-eligible bits
  emits              \* while held: elapsed at each call that returned K_REPEAT

debVars == <<debounce_key, debounce_time, new_key>>
rptVars == <<kbd_rptStatus, repeat_time, repeat_rate>>
hdlHist == <<in_key, prev_in, streak_el, out_key, prev_out, call_el, held, emits>>

VARIABLES
  (* stack monitor *)
  grows_up,          \* CPU_STACK_GROWS_UPWARD
  stack_size,        \* process -> stack_size (bytes)
  stack_mem,         \* process -> its stack: cell index from stack_base -> cell value
  MonitorProcs,      \* the list of monitored processes, head first
  name,              \* process -> monitor.name
  sp_free,           \* result of the latest monitor_checkStack call of the
                     \* stack-scan specification (-1: none)
  (* tasks and scheduler *)
  running,           \* the task that has the CPU
  forbid_cnt,        \* nesting count of proc_forbid
  mpc,               \* position of the monitor task
  mnode,             \* node of the monitor's FOREACH_NODE (position in the list)
  rpc,               \* position of the task calling monitor_report
  rnode,             \* node of monitor_report's FOREACH_NODE
  apc,               \* position of the task calling monitor_add / monitor_remove
  aproc,             \* the proc argument of that call
  (* history *)
  linking,           \* the process whose link is being written by ADDTAIL / REMOVE
  msnap,             \* MonitorProcs when the monitor's traversal started
  mvisited,          \* entries the monitor's traversal has visited
  mwarn,             \* entries the monitor has warned about in this pass
  rsnap,             \* MonitorProcs when monitor_report's traversal started
  rvisited,          \* entries monitor_report's traversal has visited
  rows               \* rows printed by the current monitor_report call

stkVars == <<grows_up, stack_size, stack_mem>>
regVars == <<MonitorProcs, name>>
tskVars == <<running, forbid_cnt, mpc, mnode, rpc, rnode, apc, aproc>>
monHist == <<linking, msnap, mvisited, mwarn, rsnap, rvisited, rows>>
monVars == <<stkVars, regVars, sp_free, tskVars, monHist>>

VARIABLES
  (* the keyboard soft interrupt *)
  current_key,       \* static of kbd_softint: currently depressed key
  lng_stop,          \* static stop of kbd_lngHandlerFunc
  timer_armed,       \* TRUE iff kbd_timer is in the list of active timers
  spc,               \* position of kbd_softint ("idle" outside)
  skey,              \* local key of kbd_softint
  (* history of the sampling passes *)
  active,            \* number of kbd_softint calls that have started and not returned
  passes,            \* number of passes started
  hw,                \* what kbd_readkeys() returned in the latest pass
  raw_out,           \* output of the raw chain in the latest pass
  cur_before,        \* current_key when the latest pass started
  wlen_before,       \* number of buffer writes when the latest pass started
  cooked_ran,        \* whether the latest pass has run the cooked chain
  trace,             \* the handler calls of the latest pass: <<handler, input, output>>
  lng_armed,         \* elapsed at the latest kbd_lngHandlerFunc call that set stop (-1: none)
  steady             \* the current run of equal samples: the sample before it (from),
                     \* elapsed at its first pass (since), whether the debounced key
                     \* was 0 (settled) and the number of buffer writes (wlen) before it

sftVars == <<current_key, lng_stop, timer_armed, spc, skey>>
sftHist == <<active, passes, hw, raw_out, cur_before, wlen_before, cooked_ran, trace,
             lng_armed, steady>>

VARIABLES
  cfg,               \* the repeat timing the driver is built with (the KBD_REPEAT_* macros)
  shadow,            \* the key state machines of the same run on a tick counter that
                     \* starts at 0 and never wraps
  cs,                \* the kbd_addHandler / kbd_remHandler call in progress (op, its
                     \* arguments h, p, f and its local flags), and the interrupt
                     \* state of the caller (irq0)
  scan               \* the monitor_checkStack call in progress, statement by
                     \* statement: its locals beg, end, cur, the memory around the
                     \* stack (mem) and the cells it has read (reads)

vars == <<chainVars, bufVars, conVars, bufHist, debVars, rptVars, hdlHist, monVars,
          sftVars, sftHist, cfg, shadow, cs, scan>>

(* What the actions of one subsystem leave alone. *)
notChain == <<bufVars, conVars, bufHist, debVars, rptVars, hdlHist, monVars, sftVars, sftHist, cfg, shadow, cs, scan>>
notBuf   == <<chainVars, debVars, rptVars, hdlHist, monVars, sftVars, sftHist, cfg, shadow, cs, scan>>
(* The key state machines read the clock; they use none of the rest. *)
notHdl   == <<chainVars, kbd_buf, kbd_cnt, beeped, irq, conVars,
              wval, buf_id, key_id, overwritten, returned, dupRet, entry, gt_el, polled,
              monVars, sftVars, sftHist, cfg, cs, scan>>
notMon   == <<chainVars, bufVars, conVars, bufHist, debVars, rptVars, hdlHist, sftVars, sftHist,
              cfg, shadow, cs, scan>>

(***************************************************************************)
(* Stack monitor: processes, stacks                                        *)
(***************************************************************************)
Procs == {"p1", "p2"}
Tasks == {"monitor", "reporter", "app"}
Names == {"a", "b"}
(* Cell values: CONFIG_KERN_STACKFILLCODE and anything else. *)
FILL == "FILL"
DATA == "DATA"
SIZEOF_CPUSTACK_T == 4
(* A stack of size bytes holds the cells 0 .. size / sizeof(cpustack_t) - 1. *)
CellsOf(size) == 0..((size \div SIZEOF_CPUSTACK_T) - 1)
Filled(size) == [i \in CellsOf(size) |-> FILL]

(* Stack sizes (bytes) of the two processes of the monitor specification. *)
StackBytesP1 == 36
StackBytesP2 == 12

(* The monitor and its tasks after monitor_init and monitor_start, with    *)
(* stacks of the given sizes and contents.                                 *)
InitMonWith(up, sizes, mems) ==
  /\ grows_up = up /\ stack_size = sizes /\ stack_mem = mems
  /\ MonitorProcs = <<>> /\ name = [p \in Procs |-> ""]
  /\ sp_free = -1
  /\ running = "app" /\ forbid_cnt = 0
  /\ mpc = "forbid" /\ mnode = 0 /\ rpc = "idle" /\ rnode = 0
  /\ apc = "idle" /\ aproc = ""
  /\ linking = "" /\ msnap = <<>> /\ mvisited = <<>> /\ mwarn = <<>>
  /\ rsnap = <<>> /\ rvisited = <<>> /\ rows = <<>>

InitMonIdle ==
  InitMonWith(FALSE,
              [p \in Procs |-> IF p = "p1" THEN StackBytesP1 ELSE StackBytesP2],
              [p \in Procs |-> Filled(IF p = "p1" THEN StackBytesP1 ELSE StackBytesP2)])

DefaultCfgFastMut ==
  [delay |-> KBD_REPEAT_DELAY, rate |-> KBD_REPEAT_RATE,
   maxrate |-> KBD_CHECK_INTERVAL \div 2, accel |-> KBD_REPEAT_ACCEL]

(* The repeat timing of the driver as distributed. *)
DefaultCfg ==
  [delay |-> KBD_REPEAT_DELAY, rate |-> KBD_REPEAT_RATE,
   maxrate |-> KBD_REPEAT_MAXRATE, accel |-> KBD_REPEAT_ACCEL]

(* No monitor_checkStack call has been made statement by statement. *)
NoScan == [pc |-> "idle", mem |-> <<>>, beg |-> 0, end |-> 0, cur |-> 0, reads |-> {}]

(* No kbd_addHandler / kbd_remHandler call in progress, the caller having  *)
(* interrupts enabled (i) or disabled.                                     *)
NoCall(i) == [op |-> "none", h |-> "", p |-> 0, f |-> {}, flags |-> TRUE, irq0 |-> i]

(* The statics of the key state machines after start-up, for the subsystem *)
(* s of the wrap-around specification.                                     *)
ShadowInit(s) ==
  [sys |-> s, dk |-> {}, dt |-> 0, nk |-> {}, rs |-> "KS_IDLE", rt |-> 0, rr |-> 0, out |-> {}]

(* Key state machines after start-up, in a driver built with the repeat    *)
(* timing c: statics are zero.                                             *)
InitHdlSys(c, s) ==
  /\ debounce_key = {} /\ debounce_time = 0 /\ new_key = {}
  /\ kbd_rptStatus = "KS_IDLE" /\ repeat_time = 0 /\ repeat_rate = 0
  /\ in_key = {} /\ prev_in = {} /\ streak_el = 0 /\ out_key = {} /\ prev_out = {}
  /\ call_el = -1 /\ held = TRUE /\ emits = <<>>
  /\ current_key = {} /\ lng_stop = 0
  /\ timer_armed = TRUE /\ spc = "idle" /\ skey = {}
  /\ active = 0 /\ passes = 0 /\ hw = {} /\ raw_out = {}
  /\ cur_before = {} /\ wlen_before = 0 /\ cooked_ran = FALSE /\ trace = <<>>
  /\ lng_armed = -1
  /\ steady = [from |-> {}, since |-> 0, settled |-> TRUE, wlen |-> 0]
  /\ cfg = c
  /\ shadow = ShadowInit(s)
  /\ cs = NoCall(TRUE)
  /\ scan = NoScan

InitHdlCfg(c) == InitHdlSys(c, "none")
InitHdl == InitHdlCfg(DefaultCfg)

(* Key buffer and consumer after start-up, with the tick counter at c:     *)
(* statics are zero, interrupts are enabled.                               *)
InitBufAt(c) ==
  /\ kbd_buf = NoKey /\ kbd_cnt = 0 /\ beeped = FALSE /\ irq = TRUE /\ clock = c
  /\ pc = "idle" /\ api = "none" /\ key = NoKey /\ start = 0 /\ stop = 0 /\ ret = NoKey
  /\ wval = <<>> /\ buf_id = 0 /\ key_id = 0 /\ overwritten = {} /\ returned = {}
  /\ dupRet = FALSE /\ entry = [cnt |-> 0, id |-> 0] /\ elapsed = 0 /\ gt_el = 0
  /\ polled = FALSE

(***************************************************************************)
(* Handler chains                                                          *)
(***************************************************************************)
SeqToSet(s) == {s[i] : i \in 1..Len(s)}
Registered == SeqToSet(kbd_rawHandlers) \cup SeqToSet(kbd_handlers)

(* INSERTBEFORE(&handler->link, &node->link): node is the i-th node of the *)
(* list, or the tail sentinel when i = Len(list) + 1.                      *)
INSERTBEFORE(list, h, i) == SubSeq(list, 1, i - 1) \o <<h>> \o SubSeq(list, i, Len(list))

(* REMOVE(&handler->link) *)
RECURSIVE REMOVE(_, _)
REMOVE(list, h) ==
  IF list = <<>> THEN <<>>
  ELSE IF Head(list) = h THEN Tail(list)
  ELSE <<Head(list)>> \o REMOVE(Tail(list), h)

(* The FOREACHNODE scan of kbd_addHandler: position of the first node,     *)
(* from position i on, whose priority is lower than p; the tail sentinel   *)
(* (Len(list) + 1) when the loop runs to the end.                          *)
RECURSIVE FindLowerMut(_, _, _, _)
FindLowerMut(list, prif, p, i) ==
  IF i > Len(list) THEN i
  ELSE IF prif[list[i]] <= p THEN i
  ELSE FindLowerMut(list, prif, p, i + 1)

RECURSIVE FindLower(_, _, _, _)
FindLower(list, prif, p, i) ==
  IF i > Len(list) THEN i
  ELSE IF prif[list[i]] < p THEN i
  ELSE FindLower(list, prif, p, i + 1)

(* The list kbd_addHandler leaves when it links h (priority p) in list. *)
AddHandlerTo(list, prif, h, p) == INSERTBEFORE(list, h, FindLower(list, prif, p, 1))

kbd_addHandler(h, p, f) ==
  /\ h \notin Registered
  /\ pri' = [pri EXCEPT ![h] = p]
  /\ flags' = [flags EXCEPT ![h] = f]
  /\ IF KHF_RAWKEYS \in f
       THEN /\ kbd_rawHandlers' = AddHandlerTo(kbd_rawHandlers, pri, h, p)
            /\ UNCHANGED kbd_handlers
       ELSE /\ kbd_handlers' = AddHandlerTo(kbd_handlers, pri, h, p)
            /\ UNCHANGED kbd_rawHandlers
  /\ arrival' = Append(arrival, h)
  /\ lastAdded' = h
  /\ UNCHANGED notChain

kbd_remHandler(h) ==
  /\ h \in Registered
  /\ kbd_rawHandlers' = REMOVE(kbd_rawHandlers, h)
  /\ kbd_handlers' = REMOVE(kbd_handlers, h)
  /\ arrival' = REMOVE(arrival, h)
  /\ lastAdded' = ""
  /\ UNCHANGED <<pri, flags>>
  /\ UNCHANGED notChain

(* kbd_init: the chains after the driver has registered its own handlers.  *)
(* lng tells whether K_LNG_MASK is configured.                             *)
InitPri == [h \in Handlers |->
              CASE h = "kbd_debHandler" -> 100
                [] h = "kbd_lngHandler" -> 90
                [] h = "kbd_rptHandler" -> 80
                [] h = "kbd_defHandler" -> -128
                [] OTHER -> 0]
InitFlags == [h \in Handlers |->
                IF h \in {"kbd_debHandler", "kbd_lngHandler", "kbd_rptHandler"}
                  THEN {KHF_RAWKEYS} ELSE {}]
InitRaw(lng) ==
  LET l1 == AddHandlerTo(<<>>, InitPri, "kbd_debHandler", 100)
      l2 == IF lng THEN AddHandlerTo(l1, InitPri, "kbd_lngHandler", 90) ELSE l1
  IN  AddHandlerTo(l2, InitPri, "kbd_rptHandler", 80)
InitCooked == AddHandlerTo(<<>>, InitPri, "kbd_defHandler", -128)

kbd_init(lng) ==
  /\ kbd_rawHandlers = InitRaw(lng)
  /\ kbd_handlers = InitCooked
  /\ pri = InitPri
  /\ flags = InitFlags
  /\ arrival = IF lng
                 THEN <<"kbd_debHandler", "kbd_lngHandler", "kbd_rptHandler", "kbd_defHandler">>
                 ELSE <<"kbd_debHandler", "kbd_rptHandler", "kbd_defHandler">>
  /\ lastAdded = ""

(***************************************************************************)
(* Specification of the handler chains: kbd_init, then any sequence of     *)
(* kbd_addHandler / kbd_remHandler calls by the application.               *)
(***************************************************************************)
InitChain == (\E lng \in BOOLEAN : kbd_init(lng)) /\ InitBufAt(0) /\ InitHdl /\ InitMonIdle

NextChain ==
  \/ \E h \in UserHandlers, p \in Pris, f \in {{}, {KHF_RAWKEYS}} : kbd_addHandler(h, p, f)
  \/ \E h \in UserHandlers : kbd_remHandler(h)

SpecChain == InitChain /\ [][NextChain]_vars

(* Positions of h in a list *)
PosIn(list, h) == CHOOSE i \in 1..Len(list) : list[i] = h

SortedByPri(list) ==
  \A i, j \in 1..Len(list) : i < j => pri[list[i]] >= pri[list[j]]

EqualPriInArrivalOrder(list) ==
  \A i, j \in 1..Len(list) :
    (i < j /\ pri[list[i]] = pri[list[j]]) => PosIn(arrival, list[i]) < PosIn(arrival, list[j])

(* The handler linked last sits immediately before the first node of       *)
(* strictly lower priority, or at the tail if there is none.               *)
PlacedBeforeFirstLower(list, h) ==
  LET k == PosIn(list, h) IN
    /\ \A i \in 1..(k - 1) : pri[list[i]] >= pri[h]
    /\ k < Len(list) => pri[list[k + 1]] < pri[h]

ListOf(h) == IF h \in SeqToSet(kbd_rawHandlers) THEN kbd_rawHandlers ELSE kbd_handlers

\* C1: after kbd_init and any kbd_addHandler / kbd_remHandler calls, the raw
\* and the cooked chain are sorted non-increasing by priority, handlers of
\* equal priority appear in the order they were added, and a handler just
\* added sits immediately before the first node of strictly lower priority
\* (at the tail if there is none), in the chain its flags select.
C1_ChainSorted ==
  /\ SortedByPri(kbd_rawHandlers) /\ SortedByPri(kbd_handlers)
  /\ EqualPriInArrivalOrder(kbd_rawHandlers) /\ EqualPriInArrivalOrder(kbd_handlers)
  /\ lastAdded # "" =>
       /\ lastAdded \in SeqToSet(kbd_rawHandlers) <=> KHF_RAWKEYS \in flags[lastAdded]
       /\ lastAdded \in SeqToSet(kbd_handlers) <=> KHF_RAWKEYS \notin flags[lastAdded]
       /\ PlacedBeforeFirstLower(ListOf(lastAdded), lastAdded)

(* A handler was added to a chain that holds two handlers of its priority: *)
(* it sits after both, before the default handler.                         *)
C1_Witness ==
  /\ kbd_handlers = <<"h2", "h3", "h1", "kbd_defHandler">>
  /\ pri["h1"] = 0 /\ pri["h2"] = 0 /\ pri["h3"] = 0
  /\ lastAdded = "h1"

(***************************************************************************)
(* Key buffer and consumer API                                             *)
(***************************************************************************)
K_TIMEOUT == {"K_TIMEOUT"}

(* Masks the cooked chain may hand to the default handler. *)
SinkKeys == {NoKey, {"K_OK"}, {"K_UP"} \cup K_REPEAT}
(* Timeouts (ms) the consumer passes to kbd_get_timeout. *)
Timeouts == {0, 1, 2}
(* Bounds of the buffer specification. *)
MaxWrites  == 3
MaxElapsed == 3

(* kbd_defHandlerFunc(k) on a buffer (buf, cnt): the buffer it leaves,     *)
(* whether it beeps and the mask it returns.                               *)
DefHandlerMut(k, buf, cnt) ==
  IF k # NoKey
    THEN [buf |-> k, cnt |-> cnt + 1, beep |-> (k \cap K_REPEAT = {}), out |-> NoKey]
    ELSE [buf |-> buf, cnt |-> cnt, beep |-> FALSE, out |-> NoKey]

DefHandlerBeepMut(k, buf, cnt) ==
  IF k # NoKey
    THEN [buf |-> k, cnt |-> 1, beep |-> TRUE, out |-> NoKey]
    ELSE [buf |-> buf, cnt |-> cnt, beep |-> FALSE, out |-> NoKey]

DefHandler(k, buf, cnt) ==
  IF k # NoKey
    THEN [buf |-> k, cnt |-> 1, beep |-> (k \cap K_REPEAT = {}), out |-> NoKey]
    ELSE [buf |-> buf, cnt |-> cnt, beep |-> FALSE, out |-> NoKey]

(* The default handler runs in the keyboard soft interrupt, with mask k. *)
kbd_defHandlerFunc(k) ==
  /\ irq
  /\ k # NoKey => Len(wval) < MaxWrites
  /\ LET r == DefHandler(k, kbd_buf, kbd_cnt) IN
       /\ kbd_buf' = r.buf
       /\ kbd_cnt' = r.cnt
       /\ beeped' = r.beep
       /\ out_key' = r.out
  /\ IF k # NoKey
       THEN /\ wval' = Append(wval, k)
            /\ buf_id' = Len(wval) + 1
            /\ overwritten' = IF kbd_cnt # 0 THEN overwritten \cup {buf_id} ELSE overwritten
       ELSE UNCHANGED <<wval, buf_id, overwritten>>
  /\ UNCHANGED <<irq, clock, conVars, key_id, returned, dupRet, entry, elapsed, gt_el, polled>>
  /\ UNCHANGED <<in_key, prev_in, streak_el, prev_out, call_el, held, emits>>
  /\ UNCHANGED <<chainVars, debVars, rptVars, monVars, sftVars, sftHist, cfg, shadow, cs, scan>>

(* The timer interrupt advances the clock by one tick. *)
Tick ==
  /\ irq
  /\ elapsed < MaxElapsed
  /\ clock' = TickAdd(clock, 1)
  /\ elapsed' = elapsed + 1
  /\ UNCHANGED <<kbd_buf, kbd_cnt, beeped, irq, conVars>>
  /\ UNCHANGED <<wval, buf_id, key_id, overwritten, returned, dupRet, entry, gt_el, polled>>
  /\ UNCHANGED notBuf

(* Calls of the consumer task. *)
CallPeek ==
  /\ pc = "idle"
  /\ api' = "kbd_peek" /\ pc' = "peek_disable" /\ polled' = FALSE
  /\ UNCHANGED <<bufVars, key, start, stop, ret>>
  /\ UNCHANGED <<wval, buf_id, key_id, overwritten, returned, dupRet, entry, elapsed, gt_el>>
  /\ UNCHANGED notBuf

CallGet ==
  /\ pc = "idle"
  /\ api' = "kbd_get" /\ pc' = "peek_disable" /\ polled' = FALSE
  /\ UNCHANGED <<bufVars, key, start, stop, ret>>
  /\ UNCHANGED <<wval, buf_id, key_id, overwritten, returned, dupRet, entry, elapsed, gt_el>>
  /\ UNCHANGED notBuf

CallGetTimeout(timeout) ==
  /\ pc = "idle"
  /\ elapsed + ms_to_ticks(timeout) <= MaxElapsed
  /\ api' = "kbd_get_timeout" /\ pc' = "peek_disable" /\ polled' = FALSE
  /\ start' = clock
  /\ stop' = ms_to_ticks(timeout)
  /\ gt_el' = elapsed
  /\ UNCHANGED <<bufVars, key, ret>>
  /\ UNCHANGED <<wval, buf_id, key_id, overwritten, returned, dupRet, entry, elapsed>>
  /\ UNCHANGED notBuf

(* kbd_peek, statement by statement. *)
peek_disable_Mut ==
  /\ pc = "peek_disable"
  /\ key' = NoKey /\ key_id' = 0
  /\ entry' = [cnt |-> kbd_cnt, id |-> buf_id]
  /\ pc' = "peek_test"
  /\ UNCHANGED <<bufVars, api, start, stop, ret>>
  /\ UNCHANGED <<wval, buf_id, overwritten, returned, dupRet, elapsed, gt_el, polled>>
  /\ UNCHANGED notBuf

peek_disable ==
  /\ pc = "peek_disable"
  /\ key' = NoKey /\ key_id' = 0
  /\ irq' = FALSE
  /\ entry' = [cnt |-> kbd_cnt, id |-> buf_id]
  /\ pc' = "peek_test"
  /\ UNCHANGED <<kbd_buf, kbd_cnt, beeped, clock, api, start, stop, ret>>
  /\ UNCHANGED <<wval, buf_id, overwritten, returned, dupRet, elapsed, gt_el, polled>>
  /\ UNCHANGED notBuf

peek_test ==
  /\ pc = "peek_test"
  /\ pc' = IF kbd_cnt # 0 THEN "peek_dec" ELSE "peek_enable"
  /\ UNCHANGED <<bufVars, api, key, start, stop, ret, bufHist>>
  /\ UNCHANGED notBuf

peek_dec ==
  /\ pc = "peek_dec"
  /\ kbd_cnt' = kbd_cnt - 1
  /\ pc' = "peek_read"
  /\ UNCHANGED <<kbd_buf, beeped, irq, clock, api, key, start, stop, ret, bufHist>>
  /\ UNCHANGED notBuf

peek_read ==
  /\ pc = "peek_read"
  /\ key' = kbd_buf /\ key_id' = buf_id
  /\ dupRet' = (dupRet \/ buf_id \in returned)
  /\ returned' = returned \cup {buf_id}
  /\ pc' = "peek_enable"
  /\ UNCHANGED <<bufVars, api, start, stop, ret>>
  /\ UNCHANGED <<wval, buf_id, overwritten, entry, elapsed, gt_el, polled>>
  /\ UNCHANGED notBuf

peek_enable ==
  /\ pc = "peek_enable"
  /\ irq' = TRUE
  /\ pc' = "peek_ret"
  /\ UNCHANGED <<kbd_buf, kbd_cnt, beeped, clock, api, key, start, stop, ret, bufHist>>
  /\ UNCHANGED notBuf

(* kbd_peek returns key to its caller. *)
Return(v) ==
  /\ ret' = v
  /\ pc' = "returned"
  /\ polled' = TRUE

kbd_peek_ret ==
  /\ pc = "peek_ret" /\ api = "kbd_peek"
  /\ Return(key)
  /\ UNCHANGED <<bufVars, api, key, start, stop>>
  /\ UNCHANGED <<wval, buf_id, key_id, overwritten, returned, dupRet, entry, elapsed, gt_el>>
  /\ UNCHANGED notBuf

(* kbd_get:  while (!(key = kbd_peek())) {}  return key; *)
kbd_get_loop_Mut ==
  /\ pc = "peek_ret" /\ api = "kbd_get"
  /\ Return(key)
  /\ UNCHANGED <<bufVars, api, key, start, stop>>
  /\ UNCHANGED <<wval, buf_id, key_id, overwritten, returned, dupRet, entry, elapsed, gt_el>>
  /\ UNCHANGED notBuf

kbd_get_loop ==
  /\ pc = "peek_ret" /\ api = "kbd_get"
  /\ IF key # NoKey
       THEN Return(key)
       ELSE pc' = "peek_disable" /\ polled' = TRUE /\ UNCHANGED ret
  /\ UNCHANGED <<bufVars, api, key, start, stop>>
  /\ UNCHANGED <<wval, buf_id, key_id, overwritten, returned, dupRet, entry, elapsed, gt_el>>
  /\ UNCHANGED notBuf

(* kbd_get_timeout:  do { if ((key = kbd_peek())) return key; }            *)
(*                   while (timer_clock() - start < stop);                 *)
(*                   return K_TIMEOUT;                                     *)
kbd_get_timeout_poll ==
  /\ pc = "peek_ret" /\ api = "kbd_get_timeout"
  /\ IF key # NoKey
       THEN Return(key)
       ELSE pc' = "gt_check" /\ polled' = TRUE /\ UNCHANGED ret
  /\ UNCHANGED <<bufVars, api, key, start, stop>>
  /\ UNCHANGED <<wval, buf_id, key_id, overwritten, returned, dupRet, entry, elapsed, gt_el>>
  /\ UNCHANGED notBuf

kbd_get_timeout_check_Mut ==
  /\ pc = "gt_check"
  /\ IF TickSub(clock, start) > stop
       THEN pc' = "peek_disable" /\ UNCHANGED ret
       ELSE ret' = K_TIMEOUT /\ pc' = "returned"
  /\ UNCHANGED <<bufVars, api, key, start, stop, bufHist>>
  /\ UNCHANGED notBuf

kbd_get_timeout_check ==
  /\ pc = "gt_check"
  /\ IF TickSub(clock, start) < stop
       THEN pc' = "peek_disable" /\ UNCHANGED ret
       ELSE ret' = K_TIMEOUT /\ pc' = "returned"
  /\ UNCHANGED <<bufVars, api, key, start, stop, bufHist>>
  /\ UNCHANGED notBuf

(* The caller takes the returned value; the locals of the call are dead. *)
Resume ==
  /\ pc = "returned"
  /\ pc' = "idle" /\ api' = "none"
  /\ key' = NoKey /\ key_id' = 0 /\ start' = 0 /\ stop' = 0 /\ gt_el' = 0
  /\ ret' = NoKey /\ polled' = FALSE
  /\ entry' = [cnt |-> 0, id |-> 0]
  /\ UNCHANGED <<bufVars, wval, buf_id, overwritten, returned, dupRet, elapsed>>
  /\ UNCHANGED notBuf

ConsumerStep ==
  \/ peek_disable \/ peek_test \/ peek_dec \/ peek_read \/ peek_enable
  \/ kbd_peek_ret \/ kbd_get_loop \/ kbd_get_timeout_poll \/ kbd_get_timeout_check
  \/ Resume

InitBuf == kbd_init(FALSE) /\ InitHdl /\ \E c \in ClockStarts : InitBufAt(c) /\ InitMonIdle

NextBuf ==
  \/ \E k \in SinkKeys : kbd_defHandlerFunc(k)
  \/ Tick
  \/ CallPeek
  \/ CallGet
  \/ \E t \in Timeouts : CallGetTimeout(t)
  \/ ConsumerStep

SpecBuf == InitBuf /\ [][NextBuf]_vars

(* The CPU executes the consumer task, and a timer interrupt that is       *)
(* pending is taken as soon as interrupts are enabled.                     *)
FairSpecBuf == SpecBuf /\ WF_vars(ConsumerStep) /\ SF_vars(Tick)

(* A mask returned by kbd_peek is the mask of the write it was read from. *)
ReadFromWrite(k, id) == id \in 1..Len(wval) /\ k = wval[id]

\* C2: the key buffer never holds more than one unread event (kbd_cnt is 0
\* or 1), and a sink write overwrites an unread value: a kbd_peek that finds
\* an event returns the latest write, and a write that was replaced while
\* unread is never returned by any kbd_peek.
C2_SingleSlot ==
  /\ kbd_cnt \in {0, 1}
  /\ overwritten \cap returned = {}
  /\ (pc = "peek_enable" /\ key # NoKey) => (key_id = Len(wval) /\ key = wval[Len(wval)])

(* Two writes with no kbd_peek between them, and a kbd_peek that has just  *)
(* read the second.                                                        *)
C2_Witness ==
  /\ pc = "peek_enable" /\ key_id = 2 /\ 1 \in overwritten /\ 1 \notin returned
  /\ wval[1] # wval[2]

\* C3: kbd_peek on an empty buffer returns 0 and leaves it empty; on a
\* buffer holding an event it returns the written mask and clears the buffer;
\* with the soft interrupt running anywhere outside the interrupt-disabled
\* section, no write is returned by two kbd_peek calls and every non-zero
\* mask returned is the mask of a write.
C3_PeekOnce ==
  /\ pc = "peek_enable" =>
       IF entry.cnt = 0
         THEN key = NoKey /\ kbd_cnt = 0
         ELSE key # NoKey /\ key_id = entry.id /\ ReadFromWrite(key, entry.id) /\ kbd_cnt = 0
  /\ ~dupRet
  /\ key # NoKey => ReadFromWrite(key, key_id)
  /\ (pc = "returned" /\ api = "kbd_peek") => ret = key

(* A kbd_peek call finds the buffer empty after an earlier kbd_peek has    *)
(* returned the only write.                                                *)
C3_Witness ==
  /\ pc = "peek_enable" /\ api = "kbd_peek" /\ entry.cnt = 0
  /\ Len(wval) = 1 /\ returned = {1}

C6_Safety ==
  /\ (pc = "returned" /\ api = "kbd_get_timeout") =>
       /\ polled
       /\ IF ret = K_TIMEOUT
            THEN elapsed - gt_el >= stop
            ELSE ret # NoKey /\ ReadFromWrite(ret, key_id)
       /\ Len(wval) = 0 => ret = K_TIMEOUT
  /\ pc = "gt_check" => (key = NoKey /\ polled)

\* C6: kbd_get_timeout(t) always returns; it returns K_TIMEOUT only when at
\* least ms_to_ticks(t) ticks have elapsed since it read start, and always
\* K_TIMEOUT when no event was ever written; a non-zero event found by one of
\* its polls is returned instead; the buffer is polled at least once before
\* any return, also for t = 0.
C6_GetTimeout ==
  /\ []C6_Safety
  /\ (api = "kbd_get_timeout") ~> (pc = "returned" /\ api = "kbd_get_timeout")

(* kbd_get_timeout(2) returns K_TIMEOUT, no event having been written, in a *)
(* run where the tick counter has wrapped since the call read start.       *)
C6_Witness ==
  /\ pc = "returned" /\ api = "kbd_get_timeout" /\ ret = K_TIMEOUT
  /\ stop = 2 /\ Len(wval) = 0 /\ start > 0 /\ clock < 0

(* kbd_get_timeout(0) returns K_TIMEOUT after one poll. *)
C6_WitnessZero ==
  pc = "returned" /\ api = "kbd_get_timeout" /\ ret = K_TIMEOUT /\ stop = 0

\* C10: kbd_get returns only non-zero masks, each the mask of a write (so it
\* does not return when nothing was ever written); under fair scheduling it
\* returns once an event is in the buffer while it is polling.
C10_Get ==
  /\ [](pc = "returned" /\ api = "kbd_get" => ret # NoKey /\ ReadFromWrite(ret, key_id))
  /\ (api = "kbd_get" /\ kbd_cnt # 0) ~> (pc = "returned" /\ api = "kbd_get")

(* kbd_get returns an event written after it had polled an empty buffer. *)
C10_Witness ==
  /\ pc = "returned" /\ api = "kbd_get" /\ ret # NoKey
  /\ Len(wval) = 1 /\ entry.cnt = 1 /\ polled

(***************************************************************************)
(* Key state machines                                                      *)
(***************************************************************************)
(* kbd_debHandlerFunc(k) at tick now, on statics dk (debounce_key),        *)
(* dt (debounce_time), nk (new_key): the statics it leaves; it returns     *)
(* the new_key it leaves.                                                  *)
DebHandlerOrdMut(k, now, dk, dt, nk) ==
  IF k # dk
    THEN [debounce_key |-> k, debounce_time |-> now, new_key |-> nk]
    ELSE IF nk # dk /\ now > TickAdd(dt, ms_to_ticks(KBD_DEBOUNCE_TIME))
      THEN [debounce_key |-> dk, debounce_time |-> now, new_key |-> dk]
      ELSE [debounce_key |-> dk, debounce_time |-> dt, new_key |-> nk]

DebHandlerMut(k, now, dk, dt, nk) ==
  IF k # dk
    THEN [debounce_key |-> k, debounce_time |-> now, new_key |-> nk]
    ELSE IF nk # dk /\ TickSub(now, dt) >= ms_to_ticks(KBD_DEBOUNCE_TIME)
      THEN [debounce_key |-> dk, debounce_time |-> now, new_key |-> dk]
      ELSE [debounce_key |-> dk, debounce_time |-> dt, new_key |-> nk]

DebHandler(k, now, dk, dt, nk) ==
  IF k # dk
    THEN [debounce_key |-> k, debounce_time |-> now, new_key |-> nk]
    ELSE IF nk # dk /\ TickSub(now, dt) > ms_to_ticks(KBD_DEBOUNCE_TIME)
      THEN [debounce_key |-> dk, debounce_time |-> now, new_key |-> dk]
      ELSE [debounce_key |-> dk, debounce_time |-> dt, new_key |-> nk]

(* Masks fed to the debounce handler, gaps (ms) between two of its calls,  *)
(* and the length of the runs explored.                                    *)
DebKeys == {NoKey, {"K_OK"}, {"K_UP"}}
DebGaps == {KBD_CHECK_INTERVAL, 2 * KBD_CHECK_INTERVAL, 4 * KBD_CHECK_INTERVAL}
MaxDebElapsed == 150

(* One call of kbd_debHandlerFunc(k); the next call comes d ms later. *)
kbd_debHandlerFunc(k, d) ==
  /\ elapsed + d <= MaxDebElapsed
  /\ LET r == DebHandler(k, clock, debounce_key, debounce_time, new_key) IN
       /\ debounce_key' = r.debounce_key
       /\ debounce_time' = r.debounce_time
       /\ new_key' = r.new_key
       /\ out_key' = r.new_key
  /\ LET u == DebHandler(k, elapsed, shadow.dk, shadow.dt, shadow.nk) IN
       shadow' = [shadow EXCEPT !.dk = u.debounce_key, !.dt = u.debounce_time,
                                !.nk = u.new_key, !.out = u.new_key]
  /\ prev_out' = out_key
  /\ in_key' = k
  /\ prev_in' = in_key
  /\ streak_el' = IF k # in_key THEN elapsed ELSE streak_el
  /\ call_el' = elapsed
  /\ clock' = TickAdd(clock, ms_to_ticks(d))
  /\ elapsed' = elapsed + ms_to_ticks(d)
  /\ UNCHANGED <<rptVars, held, emits>>
  /\ UNCHANGED notHdl

InitDeb == kbd_init(FALSE) /\ InitHdl /\ \E c \in ClockStarts : InitBufAt(c) /\ InitMonIdle
NextDeb == \E k \in DebKeys, d \in DebGaps : kbd_debHandlerFunc(k, d)
SpecDeb == InitDeb /\ [][NextDeb]_vars

(* At the latest call the input had been the same since streak_el. *)
SteadyFor == call_el - streak_el

\* C4: the debounced output changes only on a call whose input equals the
\* input of the previous call and has been the same for strictly more than
\* KBD_DEBOUNCE_TIME since it was first seen, and it then becomes that input;
\* an input that has been steady for more than KBD_DEBOUNCE_TIME is the
\* output (so it is promoted once and the output then stays constant).
C4_Debounce ==
  call_el >= 0 =>
    /\ out_key # prev_out =>
         /\ in_key = prev_in
         /\ SteadyFor > ms_to_ticks(KBD_DEBOUNCE_TIME)
         /\ out_key = in_key
    /\ (in_key = prev_in /\ SteadyFor > ms_to_ticks(KBD_DEBOUNCE_TIME)) => out_key = in_key
    /\ out_key = new_key

(* A mask held for four 10 ms samples is promoted on the call 40 ms after  *)
(* it was first seen, after the input had toggled without effect.          *)
C4_Witness ==
  /\ out_key = {"K_OK"} /\ prev_out = NoKey /\ SteadyFor = 40
  /\ streak_el >= 30

(* The tick counter wrapped between the first sight of the mask and its    *)
(* promotion.                                                              *)
C4_WitnessWrap ==
  /\ out_key = {"K_OK"} /\ prev_out = NoKey /\ debounce_time < 0 /\ SteadyFor = 40
  /\ streak_el = 0

(* kbd_rptHandlerFunc(k) at tick now, on statics st (kbd_rptStatus),       *)
(* rt (repeat_time), rr (repeat_rate): the statics it leaves and the mask  *)
(* it returns.                                                             *)
RptHandlerMut(k, now, st, rt, rr) ==
  LET same == [kbd_rptStatus |-> st, repeat_time |-> rt, repeat_rate |-> rr, out |-> k] IN
  CASE st = "KS_IDLE" ->
         IF k \cap K_RPT_MASK # {}
           THEN [same EXCEPT !.repeat_time = now, !.kbd_rptStatus = "KS_REPDELAY"]
           ELSE same
    [] st = "KS_REPDELAY" ->
         IF k \cap K_RPT_MASK # {}
           THEN IF TickSub(now, rt) > ms_to_ticks(KBD_REPEAT_DELAY)
                  THEN [kbd_rptStatus |-> "KS_REPEAT", repeat_time |-> now,
                        repeat_rate |-> ms_to_ticks(KBD_REPEAT_RATE),
                        out |-> (k \cap K_RPT_MASK) \cup K_REPEAT]
                  ELSE [same EXCEPT !.out = NoKey]
           ELSE [same EXCEPT !.kbd_rptStatus = "KS_IDLE"]
    [] st = "KS_REPEAT" ->
         IF k \cap K_RPT_MASK # {}
           THEN IF TickSub(now, rt) > rr
                  THEN [kbd_rptStatus |-> st, repeat_time |-> now,
                        repeat_rate |-> rr - ms_to_ticks(KBD_REPEAT_ACCEL),
                        out |-> (k \cap K_RPT_MASK) \cup K_REPEAT]
                  ELSE [same EXCEPT !.out = NoKey]
           ELSE [same EXCEPT !.kbd_rptStatus = "KS_IDLE"]

RptHandlerGeMut(k, now, st, rt, rr) ==
  LET same == [kbd_rptStatus |-> st, repeat_time |-> rt, repeat_rate |-> rr, out |-> k] IN
  CASE st = "KS_IDLE" ->
         IF k \cap K_RPT_MASK # {}
           THEN [same EXCEPT !.repeat_time = now, !.kbd_rptStatus = "KS_REPDELAY"]
           ELSE same
    [] st = "KS_REPDELAY" ->
         IF k \cap K_RPT_MASK # {}
           THEN IF TickSub(now, rt) >= ms_to_ticks(KBD_REPEAT_DELAY)
                  THEN [kbd_rptStatus |-> "KS_REPEAT", repeat_time |-> now,
                        repeat_rate |-> ms_to_ticks(KBD_REPEAT_RATE),
                        out |-> (k \cap K_RPT_MASK) \cup K_REPEAT]
                  ELSE [same EXCEPT !.out = NoKey]
           ELSE [same EXCEPT !.kbd_rptStatus = "KS_IDLE"]
    [] st = "KS_REPEAT" ->
         IF k \cap K_RPT_MASK # {}
           THEN IF TickSub(now, rt) > rr
                  THEN [kbd_rptStatus |-> st, repeat_time |-> now,
                        repeat_rate |-> IF rr > ms_to_ticks(KBD_REPEAT_MAXRATE)
                                          THEN rr - ms_to_ticks(KBD_REPEAT_ACCEL)
                                          ELSE rr,
                        out |-> (k \cap K_RPT_MASK) \cup K_REPEAT]
                  ELSE [same EXCEPT !.out = NoKey]
           ELSE [same EXCEPT !.kbd_rptStatus = "KS_IDLE"]

(* kbd_rptHandlerFunc in a driver built with the repeat timing c. *)
RptHandlerCfg(k, now, st, rt, rr, c) ==
  LET same == [kbd_rptStatus |-> st, repeat_time |-> rt, repeat_rate |-> rr, out |-> k] IN
  CASE st = "KS_IDLE" ->
         IF k \cap K_RPT_MASK # {}
           THEN [same EXCEPT !.repeat_time = now, !.kbd_rptStatus = "KS_REPDELAY"]
           ELSE same
    [] st = "KS_REPDELAY" ->
         IF k \cap K_RPT_MASK # {}
           THEN IF TickSub(now, rt) > ms_to_ticks(c.delay)
                  THEN [kbd_rptStatus |-> "KS_REPEAT", repeat_time |-> now,
                        repeat_rate |-> ms_to_ticks(c.rate),
                        out |-> (k \cap K_RPT_MASK) \cup K_REPEAT]
                  ELSE [same EXCEPT !.out = NoKey]
           ELSE [same EXCEPT !.kbd_rptStatus = "KS_IDLE"]
    [] st = "KS_REPEAT" ->
         IF k \cap K_RPT_MASK # {}
           THEN IF TickSub(now, rt) > rr
                  THEN [kbd_rptStatus |-> st, repeat_time |-> now,
                        repeat_rate |-> IF rr > ms_to_ticks(c.maxrate)
                                          THEN rr - ms_to_ticks(c.accel)
                                          ELSE rr,
                        out |-> (k \cap K_RPT_MASK) \cup K_REPEAT]
                  ELSE [same EXCEPT !.out = NoKey]
           ELSE [same EXCEPT !.kbd_rptStatus = "KS_IDLE"]

(* kbd_rptHandlerFunc with the repeat timing of the driver as distributed. *)
RptHandler(k, now, st, rt, rr) == RptHandlerCfg(k, now, st, rt, rr, DefaultCfg)

(* Masks fed to the repeat handler and the number of 10 ms samples of the  *)
(* runs explored.                                                          *)
RptKeys == {NoKey, {"K_UP"}, {"K_UP", "K_OK"}}
MaxRptPasses == 166

(* One call of kbd_rptHandlerFunc(k), from the sampling pass that runs     *)
(* every KBD_CHECK_INTERVAL ms.                                            *)
kbd_rptHandlerFunc(k) ==
  /\ elapsed < MaxRptPasses * ms_to_ticks(KBD_CHECK_INTERVAL)
  /\ LET r == RptHandler(k, clock, kbd_rptStatus, repeat_time, repeat_rate)
         h == held /\ k \cap K_RPT_MASK # {}
     IN
       /\ kbd_rptStatus' = r.kbd_rptStatus
       /\ repeat_time' = r.repeat_time
       /\ repeat_rate' = r.repeat_rate
       /\ out_key' = r.out
       /\ held' = h
       /\ emits' = IF ~h THEN <<>>
                   ELSE IF r.out \cap K_REPEAT # {} THEN Append(emits, elapsed)
                   ELSE emits
  /\ LET u == RptHandler(k, elapsed, shadow.rs, shadow.rt, shadow.rr) IN
       shadow' = [shadow EXCEPT !.rs = u.kbd_rptStatus, !.rt = u.repeat_time,
                                !.rr = u.repeat_rate, !.out = u.out]
  /\ prev_out' = out_key
  /\ in_key' = k
  /\ prev_in' = in_key
  /\ call_el' = elapsed
  /\ clock' = TickAdd(clock, ms_to_ticks(KBD_CHECK_INTERVAL))
  /\ elapsed' = elapsed + ms_to_ticks(KBD_CHECK_INTERVAL)
  /\ UNCHANGED <<debVars, streak_el>>
  /\ UNCHANGED notHdl

InitRpt == kbd_init(FALSE) /\ InitHdl /\ \E c \in ClockStarts : InitBufAt(c) /\ InitMonIdle
NextRpt == \E k \in RptKeys : kbd_rptHandlerFunc(k)
SpecRpt == InitRpt /\ [][NextRpt]_vars

Max(a, b) == IF a >= b THEN a ELSE b

(* While the bits are held from tick 0: the tick of the i-th emission      *)
(* counted from the tick of the one before it (from tick 0 for the first). *)
Gap(i) == IF i = 1 THEN emits[1] ELSE emits[i] - emits[i - 1]

(* The delay the handler waits for before the i-th emission: the initial   *)
(* delay, then the base rate lowered by the acceleration step at each      *)
(* emission, down to the floor rate.                                       *)
Threshold(i) ==
  IF i = 1 THEN ms_to_ticks(KBD_REPEAT_DELAY)
  ELSE Max(ms_to_ticks(KBD_REPEAT_RATE) - (i - 2) * ms_to_ticks(KBD_REPEAT_ACCEL),
           ms_to_ticks(KBD_REPEAT_MAXRATE))

(* g is the first multiple of the sampling interval strictly above t. *)
FirstSampleAfter(g, t) == g > t /\ g - ms_to_ticks(KBD_CHECK_INTERVAL) <= t

Emitted == out_key \cap K_REPEAT # {}

\* C5 (amended): with the default constants and one call every 10 ms, bits
\* held from tick 0: the i-th emission comes on the first sample strictly
\* more than Threshold(i) ticks after the previous one (410 for the first,
\* then gaps 110, 100, 100, 90, 90, ..., 30, 30): the delay waited for
\* shrinks by 5 at each emission from 100 down to a floor of 20, the gaps
\* never grow and are never below 20; an emission returns the eligible bits
\* with K_REPEAT, every other call after the first returns 0.
C5_Repeat ==
  (held /\ call_el >= 0) =>
    /\ \A i \in 1..Len(emits) : FirstSampleAfter(Gap(i), Threshold(i))
    /\ \A i \in 3..Len(emits) : Gap(i) <= Gap(i - 1)
    /\ \A i \in 2..Len(emits) : Gap(i) >= ms_to_ticks(KBD_REPEAT_MAXRATE)
    /\ IF Emitted
         THEN /\ emits # <<>> /\ emits[Len(emits)] = call_el
              /\ out_key = (in_key \cap K_RPT_MASK) \cup K_REPEAT
         ELSE /\ call_el - (IF emits = <<>> THEN 0 ELSE emits[Len(emits)])
                   <= Threshold(Len(emits) + 1)
              /\ call_el > 0 => out_key = NoKey
    /\ kbd_rptStatus = "KS_REPEAT" =>
         repeat_rate = Threshold(Len(emits) + 1)

(* The handler has reached the floor rate and emitted twice at it. *)
C5_Witness ==
  /\ held /\ Emitted /\ repeat_rate = ms_to_ticks(KBD_REPEAT_MAXRATE)
  /\ Len(emits) >= 19
  /\ Gap(Len(emits)) = 30 /\ Gap(Len(emits) - 1) = 30

\* C5 as stated: first emission at tick about 400, the next about 100 ticks
\* later, and from then on each gap between consecutive emissions is the
\* previous gap less 5, down to a floor of 20.
C5_AsStated ==
  (held /\ call_el >= 0) =>
    /\ Len(emits) >= 1 => (emits[1] >= 400 /\ emits[1] <= 410)
    /\ Len(emits) >= 2 => (Gap(2) >= 100 /\ Gap(2) <= 110)
    /\ \A i \in 3..Len(emits) : Gap(i) = Max(Gap(i - 1) - 5, 20)

(***************************************************************************)
(* Stack monitor: monitor_checkStack                                       *)
(***************************************************************************)
Abs(x) == IF x < 0 THEN -x ELSE x

(* The while loop of monitor_checkStack on stack m, from cell cur: the     *)
(* cell at which it stops.                                                 *)
RECURSIVE ScanMut(_, _, _, _)
ScanMut(m, cur, end, up) ==
  IF cur = end THEN cur
  ELSE IF m[cur] = FILL THEN cur
  ELSE ScanMut(m, IF up THEN cur - 1 ELSE cur + 1, end, up)

RECURSIVE Scan(_, _, _, _)
Scan(m, cur, end, up) ==
  IF cur = end THEN cur
  ELSE IF m[cur] # FILL THEN cur
  ELSE Scan(m, IF up THEN cur - 1 ELSE cur + 1, end, up)

(* monitor_checkStack(stack_base, stack_size) on a stack whose cells are   *)
(* m, indexed from stack_base; up is CPU_STACK_GROWS_UPWARD.               *)
monitor_checkStack(m, size, up) ==
  LET first == 0
      last  == 0 + (size \div SIZEOF_CPUSTACK_T) - 1
      beg   == IF up THEN last ELSE first
      end   == IF up THEN first ELSE last
      cur   == Scan(m, beg, end, up)
  IN  Abs(cur - beg) * SIZEOF_CPUSTACK_T

(* Sizes (bytes) and contents of the stacks the stack-scan specification   *)
(* explores: every size from one cell to MaxStackBytes with every content, *)
(* and a stack of BigStackBytes with at most one cell written.             *)
MaxStackBytes == 22
BigStackBytes == 256
OneWritten(size) ==
  {Filled(size)} \cup
  {[i \in CellsOf(size) |-> IF i = w THEN DATA ELSE FILL] : w \in CellsOf(size)}
StackContents(size) ==
  IF size <= MaxStackBytes THEN [CellsOf(size) -> {FILL, DATA}] ELSE OneWritten(size)

(* A call monitor_checkStack(p->stack_base, p->stack_size). *)
CheckStack(p) ==
  /\ sp_free' = monitor_checkStack(stack_mem[p], stack_size[p], grows_up)
  /\ aproc' = p
  /\ UNCHANGED <<stkVars, regVars, running, forbid_cnt, mpc, mnode, rpc, rnode, apc, monHist>>
  /\ UNCHANGED notMon

InitStack ==
  /\ kbd_init(FALSE) /\ InitBufAt(0) /\ InitHdl
  /\ \E up \in BOOLEAN, sz \in (SIZEOF_CPUSTACK_T..MaxStackBytes) \cup {BigStackBytes} :
       \E m \in StackContents(sz) :
         InitMonWith(up,
                     [p \in Procs |-> IF p = "p1" THEN sz ELSE StackBytesP2],
                     [p \in Procs |-> IF p = "p1" THEN m ELSE Filled(StackBytesP2)])
NextStack == \E p \in Procs : CheckStack(p)
SpecStack == InitStack /\ [][NextStack]_vars

(* The j-th cell of p's stack counted from the guard end: the lowest cell  *)
(* first when the stack grows downward, the highest first when upward.     *)
NumCells(p) == stack_size[p] \div SIZEOF_CPUSTACK_T
FromGuard(p, j) == stack_mem[p][IF grows_up THEN NumCells(p) - j ELSE j - 1]
(* Number of consecutive sentinel cells from the guard end, the cell at    *)
(* the opposite boundary not counted.                                      *)
SentinelRun(p) ==
  Cardinality({k \in 1..(NumCells(p) - 1) : \A j \in 1..k : FromGuard(p, j) = FILL})
WholeCells(p) == stack_size[p] % SIZEOF_CPUSTACK_T = 0

C7_WitnessStop ==
  /\ sp_free = 8 /\ aproc = "p1" /\ stack_size["p1"] = 20 /\ ~grows_up
  /\ stack_mem["p1"][2] = DATA /\ stack_mem["p1"][3] = FILL

(***************************************************************************)
(* Stack monitor: registry, monitor loop, report                          *)
(***************************************************************************)
(* proc_forbid() / proc_permit(): while the count is not zero the running  *)
(* task is not preempted.                                                  *)
proc_forbid == forbid_cnt' = forbid_cnt + 1
proc_permit == forbid_cnt' = forbid_cnt - 1

(* The scheduler gives the CPU to task t. *)
Preempt(t) ==
  /\ forbid_cnt = 0
  /\ running # t
  /\ running' = t
  /\ UNCHANGED <<stkVars, regVars, sp_free, forbid_cnt, mpc, mnode, rpc, rnode, apc, aproc, monHist>>
  /\ UNCHANGED notMon

(* The warning threshold of the monitor loop (bytes). *)
LowStack == 32
(* Cells a monitored process writes in one step of its execution. *)
PushCells == 3

(* The cells of p's stack in the order the process uses them: from the end *)
(* opposite to the guard end.                                              *)
UseOrder(p, j) == IF grows_up THEN j - 1 ELSE NumCells(p) - j
Used(p) == Cardinality({j \in 1..NumCells(p) : stack_mem[p][UseOrder(p, j)] # FILL})

(* A monitored process runs and its stack grows by up to PushCells cells. *)
StackPush(p) ==
  /\ running = "app" /\ apc = "idle"
  /\ Used(p) < NumCells(p)
  /\ LET u == Used(p) IN
       stack_mem' = [stack_mem EXCEPT ![p] =
         [i \in CellsOf(stack_size[p]) |->
            IF \E j \in (u + 1)..(u + PushCells) : j <= NumCells(p) /\ i = UseOrder(p, j)
              THEN DATA ELSE stack_mem[p][i]]]
  /\ UNCHANGED <<grows_up, stack_size, regVars, sp_free, tskVars, monHist>>
  /\ UNCHANGED notMon

(* monitor_add(proc, name), statement by statement. *)
monitor_add_Mut(p, nm) ==
  \/ /\ running = "app" /\ apc = "idle"
     /\ p \notin SeqToSet(MonitorProcs)
     /\ name' = [name EXCEPT ![p] = nm]
     /\ aproc' = p /\ apc' = "add_link"
     /\ UNCHANGED <<stkVars, MonitorProcs, sp_free, running, forbid_cnt, mpc, mnode, rpc, rnode, monHist>>
     /\ UNCHANGED notMon
  \/ /\ running = "app" /\ apc = "add_link" /\ aproc = p /\ nm = name[p]
     /\ linking' = p
     /\ apc' = "add_link2"
     /\ UNCHANGED <<stkVars, regVars, sp_free, running, forbid_cnt, mpc, mnode, rpc, rnode, aproc>>
     /\ UNCHANGED <<msnap, mvisited, mwarn, rsnap, rvisited, rows>>
     /\ UNCHANGED notMon
  \/ /\ running = "app" /\ apc = "add_link2" /\ aproc = p /\ nm = name[p]
     /\ MonitorProcs' = Append(MonitorProcs, p)
     /\ linking' = ""
     /\ apc' = "idle" /\ aproc' = ""
     /\ UNCHANGED <<stkVars, name, sp_free, running, forbid_cnt, mpc, mnode, rpc, rnode>>
     /\ UNCHANGED <<msnap, mvisited, mwarn, rsnap, rvisited, rows>>
     /\ UNCHANGED notMon

monitor_add(p, nm) ==
  \/ /\ running = "app" /\ apc = "idle"
     /\ p \notin SeqToSet(MonitorProcs)
     /\ name' = [name EXCEPT ![p] = nm]
     /\ aproc' = p /\ apc' = "add_forbid"
     /\ UNCHANGED <<stkVars, MonitorProcs, sp_free, running, forbid_cnt, mpc, mnode, rpc, rnode, monHist>>
     /\ UNCHANGED notMon
  \/ /\ running = "app" /\ apc = "add_forbid" /\ aproc = p /\ nm = name[p]
     /\ proc_forbid
     /\ apc' = "add_link"
     /\ UNCHANGED <<stkVars, regVars, sp_free, running, mpc, mnode, rpc, rnode, aproc, monHist>>
     /\ UNCHANGED notMon
  \/ /\ running = "app" /\ apc = "add_link" /\ aproc = p /\ nm = name[p]
     /\ linking' = p
     /\ apc' = "add_link2"
     /\ UNCHANGED <<stkVars, regVars, sp_free, running, forbid_cnt, mpc, mnode, rpc, rnode, aproc>>
     /\ UNCHANGED <<msnap, mvisited, mwarn, rsnap, rvisited, rows>>
     /\ UNCHANGED notMon
  \/ /\ running = "app" /\ apc = "add_link2" /\ aproc = p /\ nm = name[p]
     /\ MonitorProcs' = Append(MonitorProcs, p)
     /\ linking' = ""
     /\ apc' = "add_permit"
     /\ UNCHANGED <<stkVars, name, sp_free, running, forbid_cnt, mpc, mnode, rpc, rnode, aproc>>
     /\ UNCHANGED <<msnap, mvisited, mwarn, rsnap, rvisited, rows>>
     /\ UNCHANGED notMon
  \/ /\ running = "app" /\ apc = "add_permit" /\ aproc = p /\ nm = name[p]
     /\ proc_permit
     /\ apc' = "idle" /\ aproc' = ""
     /\ UNCHANGED <<stkVars, regVars, sp_free, running, mpc, mnode, rpc, rnode, monHist>>
     /\ UNCHANGED notMon

(* monitor_remove(proc), statement by statement. *)
monitor_remove(p) ==
  \/ /\ running = "app" /\ apc = "idle"
     /\ p \in SeqToSet(MonitorProcs)
     /\ proc_forbid
     /\ aproc' = p /\ apc' = "rem_unlink"
     /\ UNCHANGED <<stkVars, regVars, sp_free, running, mpc, mnode, rpc, rnode, monHist>>
     /\ UNCHANGED notMon
  \/ /\ running = "app" /\ apc = "rem_unlink" /\ aproc = p
     /\ linking' = p
     /\ apc' = "rem_unlink2"
     /\ UNCHANGED <<stkVars, regVars, sp_free, running, forbid_cnt, mpc, mnode, rpc, rnode, aproc>>
     /\ UNCHANGED <<msnap, mvisited, mwarn, rsnap, rvisited, rows>>
     /\ UNCHANGED notMon
  \/ /\ running = "app" /\ apc = "rem_unlink2" /\ aproc = p
     /\ MonitorProcs' = REMOVE(MonitorProcs, p)
     /\ linking' = ""
     /\ apc' = "rem_permit"
     /\ UNCHANGED <<stkVars, name, sp_free, running, forbid_cnt, mpc, mnode, rpc, rnode, aproc>>
     /\ UNCHANGED <<msnap, mvisited, mwarn, rsnap, rvisited, rows>>
     /\ UNCHANGED notMon
  \/ /\ running = "app" /\ apc = "rem_permit" /\ aproc = p
     /\ proc_permit
     /\ apc' = "idle" /\ aproc' = ""
     /\ UNCHANGED <<stkVars, regVars, sp_free, running, mpc, mnode, rpc, rnode, monHist>>
     /\ UNCHANGED notMon

(* The row or warning data of a registry entry. *)
FreeOf(p) == monitor_checkStack(stack_mem[p], stack_size[p], grows_up)

(* if (free < 0x20) *)
LowOnStack_Mut(free) == free <= LowStack
LowOnStack(free) == free < LowStack

(* monitor(): for (;;) { proc_forbid(); FOREACH_NODE ... proc_permit();    *)
(* timer_delay(500); }                                                     *)
monitor ==
  \/ /\ running = "monitor" /\ mpc = "forbid"
     /\ proc_forbid
     /\ mnode' = 1 /\ msnap' = MonitorProcs /\ mvisited' = <<>> /\ mwarn' = <<>>
     /\ mpc' = "loop"
     /\ UNCHANGED <<stkVars, regVars, sp_free, running, rpc, rnode, apc, aproc>>
     /\ UNCHANGED <<linking, rsnap, rvisited, rows>>
     /\ UNCHANGED notMon
  \/ /\ running = "monitor" /\ mpc = "loop"
     /\ IF mnode <= Len(MonitorProcs)
          THEN LET q == MonitorProcs[mnode] IN
                 /\ mwarn' = IF LowOnStack(FreeOf(q)) THEN Append(mwarn, q) ELSE mwarn
                 /\ mvisited' = Append(mvisited, q)
                 /\ mnode' = mnode + 1
                 /\ UNCHANGED mpc
          ELSE mpc' = "permit" /\ UNCHANGED <<mnode, mvisited, mwarn>>
     /\ UNCHANGED <<stkVars, regVars, sp_free, running, forbid_cnt, rpc, rnode, apc, aproc>>
     /\ UNCHANGED <<linking, msnap, rsnap, rvisited, rows>>
     /\ UNCHANGED notMon
  \/ /\ running = "monitor" /\ mpc = "permit"
     /\ proc_permit
     /\ mpc' = "delay"
     /\ mnode' = 0 /\ msnap' = <<>> /\ mvisited' = <<>> /\ mwarn' = <<>>
     /\ UNCHANGED <<stkVars, regVars, sp_free, running, rpc, rnode, apc, aproc>>
     /\ UNCHANGED <<linking, rsnap, rvisited, rows>>
     /\ UNCHANGED notMon
  \/ /\ running = "monitor" /\ mpc = "delay"
     /\ mpc' = "forbid"
     /\ UNCHANGED <<stkVars, regVars, sp_free, running, forbid_cnt, mnode, rpc, rnode, apc, aproc, monHist>>
     /\ UNCHANGED notMon

(* monitor_report(), statement by statement. *)
monitor_report ==
  \/ /\ running = "reporter" /\ rpc = "idle"
     /\ rpc' = "forbid"
     /\ UNCHANGED <<stkVars, regVars, sp_free, running, forbid_cnt, mpc, mnode, rnode, apc, aproc, monHist>>
     /\ UNCHANGED notMon
  \/ /\ running = "reporter" /\ rpc = "forbid"
     /\ proc_forbid
     /\ rnode' = 1 /\ rsnap' = MonitorProcs /\ rvisited' = <<>>
     /\ rpc' = "loop"
     /\ UNCHANGED <<stkVars, regVars, sp_free, running, mpc, mnode, apc, aproc>>
     /\ UNCHANGED <<linking, msnap, mvisited, mwarn, rows>>
     /\ UNCHANGED notMon
  \/ /\ running = "reporter" /\ rpc = "loop"
     /\ IF rnode <= Len(MonitorProcs)
          THEN LET q == MonitorProcs[rnode] IN
                 /\ rows' = Append(rows, <<q, stack_size[q], FreeOf(q), name[q]>>)
                 /\ rvisited' = Append(rvisited, q)
                 /\ rnode' = rnode + 1
                 /\ UNCHANGED rpc
          ELSE rpc' = "permit" /\ UNCHANGED <<rnode, rvisited, rows>>
     /\ UNCHANGED <<stkVars, regVars, sp_free, running, forbid_cnt, mpc, mnode, apc, aproc>>
     /\ UNCHANGED <<linking, msnap, mvisited, mwarn, rsnap>>
     /\ UNCHANGED notMon
  \/ /\ running = "reporter" /\ rpc = "permit"
     /\ proc_permit
     /\ rpc' = "idle"
     /\ rnode' = 0 /\ rsnap' = <<>> /\ rvisited' = <<>> /\ rows' = <<>>
     /\ UNCHANGED <<stkVars, regVars, sp_free, running, mpc, mnode, apc, aproc>>
     /\ UNCHANGED <<linking, msnap, mvisited, mwarn>>
     /\ UNCHANGED notMon

InitMon ==
  /\ kbd_init(FALSE) /\ InitBufAt(0) /\ InitHdl
  /\ \E up \in BOOLEAN :
       InitMonWith(up,
                   [p \in Procs |-> IF p = "p1" THEN StackBytesP1 ELSE StackBytesP2],
                   [p \in Procs |-> Filled(IF p = "p1" THEN StackBytesP1 ELSE StackBytesP2)])

NextMon ==
  \/ \E t \in Tasks : Preempt(t)
  \/ \E p \in Procs : StackPush(p)
  \/ \E p \in Procs, nm \in Names : monitor_add(p, nm)
  \/ \E p \in Procs : monitor_remove(p)
  \/ monitor
  \/ monitor_report

SpecMon == InitMon /\ [][NextMon]_vars

(* The scheduler is fair to the monitor process, the CPU always executes   *)
(* the running task, and a task inside its critical section leaves it.     *)
FairSpecMon ==
  /\ SpecMon
  /\ WF_vars(NextMon)
  /\ SF_vars(Preempt("monitor"))
  /\ SF_vars(monitor)

InTraversal(pcv) == pcv \in {"loop", "permit"}
Prefix(sq, k) == SubSeq(sq, 1, k)

(* What one traversal may see between proc_forbid() and proc_permit(). *)
TraversalIntact(pcv, node, snap, visited) ==
  InTraversal(pcv) =>
    /\ MonitorProcs = snap
    /\ linking = ""
    /\ visited = Prefix(snap, node - 1)
    /\ (pcv = "permit" => visited = snap)

(* C8: registry mutation (monitor_add, monitor_remove) and traversal      *)
(* (monitor_report, the scan of the monitor loop) exclude each other: from *)
(* the start to the end of a traversal the registry equals what it was at  *)
(* the start, no entry is half linked or half unlinked, and the traversal  *)
(* visits exactly the entries registered when it started, in order.        *)
C8_MutualExclusion ==
  /\ TraversalIntact(mpc, mnode, msnap, mvisited)
  /\ TraversalIntact(rpc, rnode, rsnap, rvisited)
  /\ ~(InTraversal(mpc) /\ InTraversal(rpc))
  /\ (linking # "" => ~InTraversal(mpc) /\ ~InTraversal(rpc))

(* The monitor loop has finished a scan of <<p1>> while monitor_add(p2)    *)
(* and monitor_report() are both waiting to enter their critical sections. *)
C8_Witness ==
  /\ mpc = "permit" /\ mvisited = <<"p1">>
  /\ apc = "add_forbid" /\ aproc = "p2"
  /\ rpc = "forbid"

Below(q) == FreeOf(q) < 32
WarnedSoFar == SelectSeq(Prefix(MonitorProcs, mnode - 1), Below)

(* C9: the monitor loop never terminates (it starts a new pass again and   *)
(* again); on every pass it warns once for each registered entry with less *)
(* than 32 bytes free and for no other; and no step of the loop changes    *)
(* the registry, an entry's stack bounds or name, or the stack memory.     *)
C9_MonitorLoop ==
  /\ [](InTraversal(mpc) => mwarn = WarnedSoFar)
  /\ [](mpc = "permit" => mwarn = SelectSeq(MonitorProcs, Below))
  /\ [][monitor => UNCHANGED <<MonitorProcs, name, grows_up, stack_size, stack_mem>>]_vars
  /\ []<>(mpc = "forbid")
  /\ []<>(mpc = "delay")

(* A pass over <<p2, p1>> where p1 has exactly 32 bytes free (no warning)  *)
(* and p2 has less (warning).                                              *)
C9_Witness ==
  /\ mpc = "permit"
  /\ MonitorProcs = <<"p2", "p1">>
  /\ FreeOf("p1") = 32
  /\ mwarn = <<"p2">>

(* A pass over an empty registry warns for nothing. *)
C9_WitnessEmpty == mpc = "permit" /\ MonitorProcs = <<>> /\ mwarn = <<>>

(***************************************************************************)
(* The keyboard soft interrupt: kbd_softint and the kbd_timer soft timer   *)
(***************************************************************************)
(* kbd_lngHandlerFunc(k) at tick now, on static st (stop): the static it   *)
(* leaves and the mask it returns.                                         *)
LngHandlerMut(k, now, st) ==
  IF k \cap K_LNG_MASK # {}
    THEN [stop |-> st,
          out  |-> IF TickSub(now, st) >= 0 THEN k \cap K_LNG_MASK ELSE k \ K_LNG_MASK]
    ELSE [stop |-> TickAdd(now, ms_to_ticks(KBD_LNG_DELAY)), out |-> k]

LngHandler(k, now, st) ==
  IF k \cap K_LNG_MASK # {}
    THEN [stop |-> st,
          out  |-> IF TickSub(now, st) > 0 THEN k \cap K_LNG_MASK ELSE k \ K_LNG_MASK]
    ELSE [stop |-> TickAdd(now, ms_to_ticks(KBD_LNG_DELAY)), out |-> k]

(* The hooks of the handlers an application registers: h1 swallows K_OK,   *)
(* h2 adds a bit of its own to every mask, h3 only observes.               *)
UserHook(h, k) ==
  CASE h = "h1" -> k \ {"K_OK"}
    [] h = "h2" -> k \cup {"K_SHIFT"}
    [] OTHER    -> k

(* The statics of the handlers and the key buffer, as one record, with the *)
(* mask being passed along the chain (key), the masks written to the       *)
(* buffer (wr) and the calls made (tr).                                    *)
HandlerState(k) ==
  [key |-> k,
   dk |-> debounce_key, dt |-> debounce_time, nk |-> new_key,
   rs |-> kbd_rptStatus, rt |-> repeat_time, rr |-> repeat_rate,
   ls |-> lng_stop,
   buf |-> kbd_buf, cnt |-> kbd_cnt, beep |-> beeped,
   wr |-> <<>>, tr |-> <<>>]

(* key = handler->hook(key) *)
CallHook(h, now, st) ==
  LET k == st.key
      nx ==
        CASE h = "kbd_debHandler" ->
               LET r == DebHandler(k, now, st.dk, st.dt, st.nk) IN
                 [st EXCEPT !.dk = r.debounce_key, !.dt = r.debounce_time,
                            !.nk = r.new_key, !.key = r.new_key]
          [] h = "kbd_lngHandler" ->
               LET r == LngHandler(k, now, st.ls) IN
                 [st EXCEPT !.ls = r.stop, !.key = r.out]
          [] h = "kbd_rptHandler" ->
               LET r == RptHandler(k, now, st.rs, st.rt, st.rr) IN
                 [st EXCEPT !.rs = r.kbd_rptStatus, !.rt = r.repeat_time,
                            !.rr = r.repeat_rate, !.key = r.out]
          [] h = "kbd_defHandler" ->
               LET r == DefHandler(k, st.buf, st.cnt) IN
                 [st EXCEPT !.buf = r.buf, !.cnt = r.cnt, !.beep = r.beep, !.key = r.out,
                            !.wr = IF k # NoKey THEN Append(st.wr, k) ELSE st.wr]
          [] OTHER -> [st EXCEPT !.key = UserHook(h, k)]
  IN [nx EXCEPT !.tr = Append(st.tr, <<h, k, nx.key>>)]

(* FOREACHNODE(handler, list) key = handler->hook(key), from node i on. *)
RECURSIVE Fold(_, _, _, _)
FoldMut(list, i, now, st) ==
  IF i > Len(list) THEN st
  ELSE Fold(list, i + 1, now, [CallHook(list[i], now, st) EXCEPT !.key = st.key])

Fold(list, i, now, st) ==
  IF i > Len(list) THEN st
  ELSE Fold(list, i + 1, now, CallHook(list[i], now, st))

(* The statics and the buffer become what the record r holds. *)
StoreHandlerState(r) ==
  /\ debounce_key' = r.dk /\ debounce_time' = r.dt /\ new_key' = r.nk
  /\ kbd_rptStatus' = r.rs /\ repeat_time' = r.rt /\ repeat_rate' = r.rr
  /\ lng_stop' = r.ls
  /\ kbd_buf' = r.buf /\ kbd_cnt' = r.cnt /\ beeped' = r.beep
  /\ wval' = wval \o r.wr
  /\ buf_id' = IF r.wr # <<>> THEN Len(wval) + Len(r.wr) ELSE buf_id
  /\ overwritten' = IF r.wr # <<>> /\ kbd_cnt # 0 THEN overwritten \cup {buf_id}
                    ELSE overwritten

(* What the soft interrupt never touches. *)
notSft == <<chainVars, irq, conVars, key_id, returned, dupRet, entry, gt_el, polled,
            hdlHist, monVars, cfg, shadow, cs, scan>>

(* Number of sampling passes explored, with and without handlers of the    *)
(* application.                                                            *)
MaxPasses == 3
MaxKbdPasses == 12

(* kbd_timer expires KBD_CHECK_INTERVAL ms after it was added: the timer   *)
(* is taken off the list of active timers and its soft interrupt starts.   *)
KbdTimerExpire(maxp) ==
  /\ timer_armed
  /\ passes < maxp
  /\ timer_armed' = FALSE
  /\ active' = active + 1
  /\ passes' = passes + 1
  /\ spc' = "raw"
  /\ clock' = TickAdd(clock, ms_to_ticks(KBD_CHECK_INTERVAL))
  /\ elapsed' = elapsed + ms_to_ticks(KBD_CHECK_INTERVAL)
  /\ cur_before' = current_key
  /\ wlen_before' = Len(wval)
  /\ cooked_ran' = FALSE
  /\ trace' = <<>>
  /\ UNCHANGED <<debVars, rptVars, current_key, lng_stop, skey, hw, raw_out, lng_armed, steady>>
  /\ UNCHANGED <<kbd_buf, kbd_cnt, beeped, wval, buf_id, overwritten>>
  /\ UNCHANGED notSft

(* The statement of kbd_softint at which timer_add(&kbd_timer) is called. *)
TimerAddAt_Mut(pos) == pos = "raw"
TimerAddAt(pos) == pos = "rearm"

(* The second half of kbd_softint: the cooked chain, run on key k when k   *)
(* differs from cur (current_key).                                         *)
SoftintCookedAlwaysMut(k, cur, list, now, st) ==
  [current_key |-> k, ran |-> TRUE, r |-> Fold(list, 1, now, st)]

SoftintCooked_Mut(k, cur, list, now, st) ==
  IF k # cur
    THEN LET r == Fold(list, 1, now, st) IN [current_key |-> r.key, ran |-> TRUE, r |-> r]
    ELSE [current_key |-> cur, ran |-> FALSE, r |-> st]

SoftintCooked(k, cur, list, now, st) ==
  IF k # cur
    THEN [current_key |-> k, ran |-> TRUE, r |-> Fold(list, 1, now, st)]
    ELSE [current_key |-> cur, ran |-> FALSE, r |-> st]

(* kbd_softint, statement by statement; h is what kbd_readkeys() returns. *)
kbd_softint(h) ==
  \/ /\ spc = "raw"
     /\ LET r == Fold(kbd_rawHandlers, 1, clock, HandlerState(h)) IN
          /\ StoreHandlerState(r)
          /\ skey' = r.key
          /\ raw_out' = r.key
          /\ trace' = r.tr
          /\ lng_armed' = IF r.ls # lng_stop THEN elapsed ELSE lng_armed
     /\ hw' = h
     /\ steady' = IF h # hw
                    THEN [from |-> hw, since |-> elapsed, settled |-> new_key = NoKey,
                          wlen |-> Len(wval)]
                    ELSE steady
     /\ timer_armed' = (timer_armed \/ TimerAddAt("raw"))
     /\ spc' = "cooked"
     /\ UNCHANGED <<current_key, active, passes, cur_before, wlen_before, cooked_ran>>
     /\ UNCHANGED <<clock, elapsed>>
     /\ UNCHANGED notSft
  \/ /\ spc = "cooked" /\ h = hw
     /\ LET c == SoftintCooked(skey, current_key, kbd_handlers, clock,
                               [HandlerState(skey) EXCEPT !.tr = trace]) IN
          /\ StoreHandlerState(c.r)
          /\ current_key' = c.current_key
          /\ cooked_ran' = c.ran
          /\ skey' = c.r.key
          /\ trace' = c.r.tr
     /\ timer_armed' = (timer_armed \/ TimerAddAt("cooked"))
     /\ spc' = "rearm"
     /\ UNCHANGED <<active, passes, hw, raw_out, cur_before, wlen_before, lng_armed, steady>>
     /\ UNCHANGED <<clock, elapsed>>
     /\ UNCHANGED notSft
  \/ /\ spc = "rearm" /\ h = hw
     /\ timer_armed' = (timer_armed \/ TimerAddAt("rearm"))
     /\ active' = active - 1
     /\ spc' = "idle"
     /\ UNCHANGED <<debVars, rptVars, current_key, lng_stop, skey>>
     /\ UNCHANGED <<passes, hw, raw_out, cur_before, wlen_before, cooked_ran, trace>>
     /\ UNCHANGED <<kbd_buf, kbd_cnt, beeped, clock, wval, buf_id, overwritten, elapsed>>
     /\ UNCHANGED <<lng_armed, steady>>
     /\ UNCHANGED notSft

(* What kbd_readkeys() may return. *)
HwKeys == {NoKey, {"K_OK"}, {"K_UP"}, {"K_ESC"}}

(* The application registers and removes handlers between two passes. *)
SftHandlers == {"h1", "h2"}
SftKeys == {NoKey, {"K_OK"}}
(* The kbd_addHandler calls it makes: <<handler, pri, flags>>. *)
SftAdds == {<<"h1", 0, {}>>, <<"h1", -128, {}>>,
            <<"h2", 100, {KHF_RAWKEYS}>>, <<"h2", 0, {KHF_RAWKEYS}>>, <<"h2", 0, {}>>}

InitSft ==
  /\ \E lng \in BOOLEAN : kbd_init(lng)
  /\ InitHdl
  /\ \E c \in ClockStarts : InitBufAt(c)
  /\ InitMonIdle

NextSft ==
  \/ KbdTimerExpire(MaxPasses)
  \/ \E h \in SftKeys : kbd_softint(h)
  \/ \E a \in SftAdds : spc = "idle" /\ kbd_addHandler(a[1], a[2], a[3])
  \/ \E h \in SftHandlers : spc = "idle" /\ kbd_remHandler(h)

SpecSft == InitSft /\ [][NextSft]_vars

(* The driver with the handlers kbd_init registers and no other. *)
NextKbd ==
  \/ KbdTimerExpire(MaxKbdPasses)
  \/ \E h \in HwKeys : kbd_softint(h)

SpecKbd == InitSft /\ [][NextKbd]_vars

(* C11: two dispatch passes never overlap.  kbd_timer is in the list of    *)
(* active timers only while no pass is in progress (it is added back as    *)
(* the last statement of kbd_softint), at most one kbd_softint call is in  *)
(* progress, and a pass starts only when the one before it has returned.   *)
C11_Serialized ==
  /\ [](active <= 1)
  /\ [](spc # "idle" => ~timer_armed /\ active = 1)
  /\ [](spc = "idle" => timer_armed /\ active = 0)
  /\ [][passes' # passes => spc = "idle" /\ active = 0]_vars

(* The third pass is between its raw and its cooked chain, the timer is    *)
(* not armed.                                                              *)
C11_Witness == passes = 3 /\ spc = "cooked" /\ ~timer_armed /\ active = 1

(* The calls i..j of the latest pass: their handlers, and whether each     *)
(* got the output of the one before it, the first one getting k.           *)
CalledFrom(i, j) == [n \in 1..(j - i + 1) |-> trace[i + n - 1][1]]
Chained(i, j, k) ==
  \A n \in i..j : trace[n][2] = IF n = i THEN k ELSE trace[n - 1][3]
OutOf(i, j, k) == IF j < i THEN k ELSE trace[j][3]
InPriOrder(i, j) == \A n \in i..(j - 1) : pri[trace[n][1]] >= pri[trace[n + 1][1]]
CallOf(h) == CHOOSE n \in 1..Len(trace) : trace[n][1] = h
Called(h) == \E n \in 1..Len(trace) : trace[n][1] = h
NRaw == Len(kbd_rawHandlers)

(* The raw chain of the latest pass has run. *)
RawDone == passes > 0 /\ spc \in {"cooked", "rearm"}

(* C12: in one pass the raw handlers run in the order of the raw chain,    *)
(* which is by priority (Debounce 100, LongPress 90 when configured,       *)
(* Repeat 80), each on the output of the one before, the first on the      *)
(* sample read; the cooked handlers run only after all of them, in the     *)
(* order of the cooked chain, the first on the raw output; the default     *)
(* handler runs after every cooked handler of priority above -128; and a   *)
(* chain with no handler returns the mask it was given.                    *)
C12_PassOrder ==
  /\ (RawDone /\ spc = "cooked") => Len(trace) = NRaw
  /\ RawDone =>
       /\ Len(trace) >= NRaw
       /\ CalledFrom(1, NRaw) = kbd_rawHandlers
       /\ Chained(1, NRaw, hw)
       /\ raw_out = OutOf(1, NRaw, hw)
       /\ InPriOrder(1, NRaw)
       /\ CallOf("kbd_debHandler") < CallOf("kbd_rptHandler")
       /\ pri["kbd_debHandler"] = 100 /\ pri["kbd_rptHandler"] = 80
       /\ Called("kbd_lngHandler") =>
            /\ pri["kbd_lngHandler"] = 90
            /\ CallOf("kbd_debHandler") < CallOf("kbd_lngHandler")
            /\ CallOf("kbd_lngHandler") < CallOf("kbd_rptHandler")
  /\ spc = "rearm" =>
       /\ CalledFrom(NRaw + 1, Len(trace)) = IF cooked_ran THEN kbd_handlers ELSE <<>>
       /\ Chained(NRaw + 1, Len(trace), raw_out)
       /\ skey = OutOf(NRaw + 1, Len(trace), raw_out)
       /\ InPriOrder(NRaw + 1, Len(trace))
       /\ cooked_ran =>
            /\ CallOf("kbd_defHandler") > NRaw
            /\ pri["kbd_defHandler"] = -128
            /\ \A n \in (NRaw + 1)..Len(trace) :
                 pri[trace[n][1]] > -128 => n < CallOf("kbd_defHandler")
  /\ \A k \in HwKeys : Fold(<<>>, 1, clock, HandlerState(k)).key = k

(* A pass with an application handler in each chain: Debounce, h2 (100),   *)
(* LongPress, Repeat, then h1 (0) and the default handler.                 *)
C12_Witness ==
  /\ spc = "rearm" /\ cooked_ran
  /\ CalledFrom(1, Len(trace)) =
       <<"kbd_debHandler", "h2", "kbd_lngHandler", "kbd_rptHandler", "h1", "kbd_defHandler">>
  /\ hw = {"K_OK"} /\ raw_out = {"K_SHIFT"} /\ kbd_buf = {"K_SHIFT"}

(* The buffer holds the latest mask written to it (no consumer runs in the *)
(* specifications of the soft interrupt).                                  *)
LastWrite == IF wval = <<>> THEN NoKey ELSE wval[Len(wval)]

(* C13: a pass runs the cooked chain if and only if its raw output differs *)
(* from the raw output cached in current_key (0 before the first pass);    *)
(* when it does, current_key becomes this pass's raw output, whatever the  *)
(* cooked chain returns; when it does not, no cooked handler is called and *)
(* current_key and the buffer are as they were when the pass started.      *)
C13_ChangeDetection ==
  /\ passes = 0 => current_key = NoKey
  /\ (passes = 1 /\ spc # "idle") => cur_before = NoKey
  /\ spc = "rearm" =>
       /\ cooked_ran <=> raw_out # cur_before
       /\ cooked_ran => current_key = raw_out /\ Len(trace) = NRaw + Len(kbd_handlers)
       /\ ~cooked_ran =>
            /\ current_key = cur_before
            /\ Len(trace) = NRaw
            /\ Len(wval) = wlen_before
            /\ kbd_buf = LastWrite

(* A pass whose raw output K_UP differs from the cached 0: the cooked      *)
(* chain has run and returned 0, and K_UP is cached.                       *)
C13_Witness ==
  /\ spc = "rearm" /\ cooked_ran /\ cur_before = NoKey
  /\ raw_out = {"K_UP"} /\ skey = NoKey /\ current_key = {"K_UP"}

(* A later pass with the same non-zero raw output skips the cooked chain. *)
C13_WitnessSkip ==
  /\ spc = "rearm" /\ ~cooked_ran /\ raw_out = {"K_OK"} /\ kbd_buf = {"K_OK"}

(* C14: the default handler, called with a non-zero mask, leaves that mask *)
(* in the buffer with exactly one pending event and beeps iff the mask     *)
(* does not carry K_REPEAT; called with 0 it leaves the buffer and the     *)
(* count as they are and does not beep; it returns 0 in both cases.        *)
C14_DefaultSink ==
  [][\A k \in SinkKeys :
       kbd_defHandlerFunc(k) =>
         /\ out_key' = NoKey
         /\ IF k # NoKey
              THEN /\ kbd_buf' = k /\ kbd_cnt' = 1
                   /\ beeped' <=> (k \cap K_REPEAT = {})
              ELSE /\ kbd_buf' = kbd_buf /\ kbd_cnt' = kbd_cnt
                   /\ ~beeped']_vars

(* The handler has replaced an unread K_OK (written with a beep) by a      *)
(* repeat event: one event pending, no beep.                               *)
C14_Witness ==
  /\ Len(wval) = 2 /\ wval[1] = {"K_OK"} /\ 1 \in overwritten
  /\ kbd_buf = {"K_UP"} \cup K_REPEAT /\ kbd_cnt = 1 /\ ~beeped /\ buf_id = 2

(* What a call of the repeat handler sees: whether its input has           *)
(* repeat-eligible bits, and whether more than d ticks have passed since   *)
(* the anchor.                                                             *)
Eligible(k) == k \cap K_RPT_MASK # {}
AnchorOlderThan(d) == TickSub(clock, repeat_time) > d
DelayOf(st) == IF st = "KS_REPDELAY" THEN ms_to_ticks(KBD_REPEAT_DELAY) ELSE repeat_rate

(* C15: the transitions of the repeat state machine.  Idle with eligible   *)
(* bits: anchor = now, RepeatDelay, input returned; RepeatDelay or Repeat  *)
(* without eligible bits: Idle, input returned; Repeat is entered only     *)
(* from RepeatDelay with eligible bits and now - anchor > initial delay,   *)
(* returning (eligible bits | K_REPEAT) with the rate set to the base      *)
(* rate; with eligible bits and the delay not elapsed the call returns 0;  *)
(* only an emitting call returns K_REPEAT.                                 *)
C15_Transitions ==
  [][\A k \in RptKeys :
       kbd_rptHandlerFunc(k) =>
         /\ (kbd_rptStatus = "KS_IDLE" /\ Eligible(k)) =>
              /\ kbd_rptStatus' = "KS_REPDELAY" /\ repeat_time' = clock /\ out_key' = k
         /\ (kbd_rptStatus = "KS_IDLE" /\ ~Eligible(k)) =>
              /\ kbd_rptStatus' = "KS_IDLE" /\ out_key' = k
         /\ (kbd_rptStatus # "KS_IDLE" /\ ~Eligible(k)) =>
              /\ kbd_rptStatus' = "KS_IDLE" /\ out_key' = k
         /\ (kbd_rptStatus' = "KS_REPEAT" /\ kbd_rptStatus # "KS_REPEAT") =>
              /\ kbd_rptStatus = "KS_REPDELAY" /\ Eligible(k)
              /\ AnchorOlderThan(ms_to_ticks(KBD_REPEAT_DELAY))
              /\ out_key' = (k \cap K_RPT_MASK) \cup K_REPEAT
              /\ repeat_rate' = ms_to_ticks(KBD_REPEAT_RATE)
              /\ repeat_time' = clock
         /\ (kbd_rptStatus = "KS_REPDELAY" /\ Eligible(k)
               /\ AnchorOlderThan(ms_to_ticks(KBD_REPEAT_DELAY))) =>
              kbd_rptStatus' = "KS_REPEAT"
         /\ (kbd_rptStatus # "KS_IDLE" /\ Eligible(k)
               /\ ~AnchorOlderThan(DelayOf(kbd_rptStatus))) =>
              /\ out_key' = NoKey
              /\ UNCHANGED <<kbd_rptStatus, repeat_time, repeat_rate>>
         /\ (out_key' \cap K_REPEAT # {}) =>
              /\ kbd_rptStatus # "KS_IDLE" /\ Eligible(k)
              /\ AnchorOlderThan(DelayOf(kbd_rptStatus))
              /\ out_key' = (k \cap K_RPT_MASK) \cup K_REPEAT]_vars

(* The call that entered Repeat: K_UP held with K_OK for 410 ms. *)
C15_Witness ==
  /\ kbd_rptStatus = "KS_REPEAT" /\ repeat_rate = ms_to_ticks(KBD_REPEAT_RATE)
  /\ in_key = {"K_UP", "K_OK"} /\ out_key = {"K_UP"} \cup K_REPEAT
  /\ prev_out = NoKey /\ emits = <<410>>

(***************************************************************************)
(* The repeat handler in drivers built with other repeat timings           *)
(***************************************************************************)
(* Repeat timings explored: the one distributed, one whose acceleration    *)
(* step does not divide the span from the base rate to the floor rate, and *)
(* one whose base rate is the floor rate.                                  *)
Configs ==
  {DefaultCfg,
   [delay |-> 40, rate |-> 100, maxrate |-> 20, accel |-> 30],
   [delay |-> 40, rate |-> 20, maxrate |-> 20, accel |-> 5]}
MaxCfgPasses == 45

(* One call of kbd_rptHandlerFunc(k) in a driver built with cfg, from the  *)
(* sampling pass that runs every KBD_CHECK_INTERVAL ms.                    *)
kbd_rptHandlerFuncCfg(k) ==
  /\ elapsed < MaxCfgPasses * ms_to_ticks(KBD_CHECK_INTERVAL)
  /\ LET r == RptHandlerCfg(k, clock, kbd_rptStatus, repeat_time, repeat_rate, cfg) IN
       /\ kbd_rptStatus' = r.kbd_rptStatus
       /\ repeat_time' = r.repeat_time
       /\ repeat_rate' = r.repeat_rate
       /\ out_key' = r.out
  /\ prev_out' = out_key
  /\ in_key' = k
  /\ prev_in' = in_key
  /\ call_el' = elapsed
  /\ clock' = TickAdd(clock, ms_to_ticks(KBD_CHECK_INTERVAL))
  /\ elapsed' = elapsed + ms_to_ticks(KBD_CHECK_INTERVAL)
  /\ UNCHANGED <<debVars, streak_el, held, emits, shadow>>
  /\ UNCHANGED notHdl

InitRptCfg ==
  /\ kbd_init(FALSE)
  /\ \E c \in Configs : InitHdlCfg(c)
  /\ \E c \in ClockStarts : InitBufAt(c)
  /\ InitMonIdle
NextRptCfg == \E k \in RptKeys : kbd_rptHandlerFuncCfg(k)
SpecRptCfg == InitRptCfg /\ [][NextRptCfg]_vars

(* The latest call emitted while in Repeat (not the call that entered it). *)
EmitsInRepeat == kbd_rptStatus = "KS_REPEAT" /\ out_key' \cap K_REPEAT # {}

(* C16 as stated: whatever the base rate, the acceleration step and the    *)
(* floor rate, each emission in Repeat sets the rate to                    *)
(* max(rate - step, floor), so the rate in Repeat is never below the floor.*)
C16_AsStated ==
  /\ [](kbd_rptStatus = "KS_REPEAT" => repeat_rate >= ms_to_ticks(cfg.maxrate))
  /\ [][EmitsInRepeat =>
          repeat_rate' = Max(repeat_rate - ms_to_ticks(cfg.accel), ms_to_ticks(cfg.maxrate))]_vars

(***************************************************************************)
(* The long-press handler on its own                                       *)
(***************************************************************************)
LngKeys == {NoKey, {"K_ESC"}, {"K_ESC", "K_OK"}}
MaxLngPasses == 104

(* One call of kbd_lngHandlerFunc(k), from the sampling pass that runs     *)
(* every KBD_CHECK_INTERVAL ms.                                            *)
kbd_lngHandlerFunc(k) ==
  /\ elapsed < MaxLngPasses * ms_to_ticks(KBD_CHECK_INTERVAL)
  /\ LET r == LngHandler(k, clock, lng_stop) IN
       /\ lng_stop' = r.stop
       /\ out_key' = r.out
  /\ lng_armed' = IF k \cap K_LNG_MASK = {} THEN elapsed ELSE lng_armed
  /\ prev_out' = out_key
  /\ in_key' = k
  /\ prev_in' = in_key
  /\ call_el' = elapsed
  /\ clock' = TickAdd(clock, ms_to_ticks(KBD_CHECK_INTERVAL))
  /\ elapsed' = elapsed + ms_to_ticks(KBD_CHECK_INTERVAL)
  /\ UNCHANGED <<debVars, rptVars, streak_el, held, emits>>
  /\ UNCHANGED <<current_key, timer_armed, spc, skey>>
  /\ UNCHANGED <<active, passes, hw, raw_out, cur_before, wlen_before, cooked_ran, trace,
                 steady>>
  /\ UNCHANGED <<chainVars, kbd_buf, kbd_cnt, beeped, irq, conVars, monVars, cfg, shadow, cs, scan>>
  /\ UNCHANGED <<wval, buf_id, key_id, overwritten, returned, dupRet, entry, gt_el, polled>>

InitLng == kbd_init(TRUE) /\ InitHdl /\ (\E c \in ClockStarts : InitBufAt(c)) /\ InitMonIdle
NextLng == \E k \in LngKeys : kbd_lngHandlerFunc(k)
SpecLng == InitLng /\ [][NextLng]_vars

(* After a call: the tick counter at that call and at start-up, and the    *)
(* time of the deadline armed last.                                        *)
NowAtCall == TickSub(clock, ms_to_ticks(KBD_CHECK_INTERVAL))
ClockAtStart == TickSub(clock, elapsed)
DeadlineEl == lng_armed + ms_to_ticks(KBD_LNG_DELAY)
LngBits(k) == k \cap K_LNG_MASK

(* A call without eligible bits arms the deadline and returns its input;   *)
(* a call with eligible bits leaves the deadline alone.                    *)
LngArming ==
  /\ LngBits(in_key) = {} => out_key = in_key /\ lng_armed = call_el
  /\ lng_armed >= 0 => lng_stop = TickAdd(ClockAtStart, DeadlineEl)
  /\ lng_armed = -1 => lng_stop = 0

\* C17 as stated: with an eligible bit set, the output keeps only the
\* eligible bits if now >= deadline, and is the input without the eligible
\* bits otherwise.
C17_AsStated ==
  (call_el >= 0 /\ lng_armed >= 0) =>
    /\ LngArming
    /\ LngBits(in_key) # {} =>
         out_key = IF call_el >= DeadlineEl THEN LngBits(in_key) ELSE in_key \ K_LNG_MASK

\* C17 (amended): a call without eligible bits sets deadline = now +
\* KBD_LNG_DELAY and returns its input; a call with an eligible bit leaves
\* the deadline unchanged and returns only the eligible bits if now is
\* strictly after the deadline (now - deadline > 0 in the arithmetic of the
\* tick counter), the input without the eligible bits otherwise; before the
\* first call without eligible bits the deadline is tick 0.
C17_LongPress ==
  call_el >= 0 =>
    /\ LngArming
    /\ (LngBits(in_key) # {} /\ lng_armed >= 0) =>
         out_key = IF call_el > DeadlineEl THEN LngBits(in_key) ELSE in_key \ K_LNG_MASK
    /\ (LngBits(in_key) # {} /\ lng_armed = -1) =>
         out_key = IF TickSub(NowAtCall, 0) > 0 THEN LngBits(in_key) ELSE in_key \ K_LNG_MASK

(* The call exactly KBD_LNG_DELAY after the deadline was armed still       *)
(* suppresses the eligible bit.                                            *)
C17_Witness ==
  /\ lng_armed >= 0 /\ call_el = DeadlineEl
  /\ in_key = {"K_ESC", "K_OK"} /\ out_key = {"K_OK"}

(* The next call reports the long press. *)
C17_WitnessLong ==
  /\ lng_armed >= 0 /\ call_el = DeadlineEl + ms_to_ticks(KBD_CHECK_INTERVAL)
  /\ in_key = {"K_ESC", "K_OK"} /\ out_key = {"K_ESC"}

(***************************************************************************)
(* A key press, end to end                                                 *)
(***************************************************************************)
(* Masks with no repeat-eligible and no long-press-eligible bit. *)
Plain(m) == m # NoKey /\ m \cap (K_RPT_MASK \cup K_LNG_MASK) = {}
(* After a pass: the sample changed from 0 to a plain mask and has been    *)
(* that mask since, for SteadyTime ms up to this pass.                     *)
Pressed == spc = "idle" /\ passes > 0 /\ Plain(hw) /\ steady.from = NoKey
SteadyTime == elapsed - steady.since
WritesSince == SubSeq(wval, steady.wlen + 1, Len(wval))
(* One event, the mask with a beep, written by the first pass at which the *)
(* mask has been steady for more than KBD_DEBOUNCE_TIME, and none else.    *)
OneEvent ==
  /\ SteadyTime <= ms_to_ticks(KBD_DEBOUNCE_TIME) => WritesSince = <<>>
  /\ SteadyTime > ms_to_ticks(KBD_DEBOUNCE_TIME) => WritesSince = <<hw>> /\ beeped
  /\ (Len(wval) > wlen_before) <=>
       (SteadyTime = ms_to_ticks(KBD_DEBOUNCE_TIME) + ms_to_ticks(KBD_CHECK_INTERVAL))

\* C19 as stated: whenever the sample changes from 0 to a plain mask m and
\* stays m, exactly one event (m, with a beep) is written, by the first
\* pass at which m has been steady for more than the debounce time.
C19_AsStated == Pressed => OneEvent

\* C19 (amended): the same, when the debounced key was 0 at the pass where
\* the sample changed from 0 to m.
C19_OneEvent == (Pressed /\ steady.settled) => OneEvent

(* The pass that writes the event, and a later pass of the same press. *)
C19_Witness ==
  /\ Pressed /\ steady.settled /\ Len(wval) = wlen_before + 1
  /\ steady.since > ms_to_ticks(KBD_CHECK_INTERVAL)

C19_WitnessAfter ==
  /\ Pressed /\ steady.settled /\ WritesSince = <<hw>>
  /\ SteadyTime > ms_to_ticks(KBD_DEBOUNCE_TIME) + ms_to_ticks(KBD_CHECK_INTERVAL)

(***************************************************************************)
(* A key held down, end to end                                             *)
(***************************************************************************)
(* The user presses a repeat-eligible key at the first sample, holds it    *)
(* and releases it; the run ends QuietPasses passes after a release,       *)
(* unless PressWrites events have been written (the first repeat event     *)
(* was the last one) and the user presses the key again at that pass.      *)
HoldKeys == {NoKey, {"K_UP"}}
MaxHoldPasses == 200
PressWrites == 2
QuietPasses == 5

NextHold ==
  \/ /\ \/ hw # NoKey
        \/ passes = 0
        \/ elapsed - steady.since < QuietPasses * ms_to_ticks(KBD_CHECK_INTERVAL)
     /\ KbdTimerExpire(MaxHoldPasses)
  \/ \E h \in HoldKeys :
       /\ \/ h = hw \/ h = NoKey \/ passes = 1
          \/ /\ Len(wval) = PressWrites
             /\ elapsed - steady.since = QuietPasses * ms_to_ticks(KBD_CHECK_INTERVAL)
       /\ kbd_softint(h)

InitHold ==
  /\ \E lng \in BOOLEAN : kbd_init(lng)
  /\ InitHdl
  /\ InitBufAt(0)
  /\ InitMonIdle

SpecHold == InitHold /\ [][NextHold]_vars

(* After the cooked half of a pass: the raw chain, whose last handler is   *)
(* the repeat handler, has put out eligible bits | K_REPEAT.               *)
RepeatEmitted ==
  /\ spc \in {"rearm", "idle"} /\ passes > 0
  /\ raw_out \cap K_REPEAT # {}
  /\ \E i \in 1..Len(trace) : trace[i][1] = "kbd_rptHandler" /\ trace[i][3] = raw_out

\* C20: with the default timing, the raw-chain output of the pass before
\* every pass on which the repeat handler emits is 0 (current_key is the
\* raw-chain output of the latest pass), so between two emissions there is
\* a pass with a different output, and every emission runs the cooked chain
\* and is written to the buffer by kbd_defHandlerFunc.
C20_NotSwallowed ==
  /\ spc = "idle" => current_key = raw_out
  /\ RepeatEmitted =>
       /\ \E i \in 1..Len(trace) :
            /\ trace[i][1] = "kbd_rptHandler"
            /\ trace[i][3] = (trace[i][2] \cap K_RPT_MASK) \cup K_REPEAT
            /\ trace[i][3] = raw_out
       /\ cur_before = NoKey
       /\ cooked_ran
       /\ trace[Len(trace)] = <<"kbd_defHandler", raw_out, NoKey>>
       /\ Len(wval) = wlen_before + 1 /\ wval[Len(wval)] = raw_out
       /\ kbd_buf = raw_out /\ kbd_cnt > 0

(* An emission at the floor rate, KBD_REPEAT_MAXRATE + KBD_CHECK_INTERVAL  *)
(* after the one before it.                                                *)
C20_Witness ==
  /\ RepeatEmitted /\ spc = "idle"
  /\ repeat_rate = ms_to_ticks(KBD_REPEAT_MAXRATE)
  /\ Len(wval) > 20
  /\ wval[Len(wval) - 1] \cap K_REPEAT # {}

(* An emission of a second press. *)
C20_WitnessAgain ==
  /\ RepeatEmitted /\ spc = "idle"
  /\ Len(wval) > PressWrites + 1 /\ wval[PressWrites + 1] \cap K_REPEAT = {}

(***************************************************************************)
(* The tick counter wraps around                                           *)
(***************************************************************************)
(* Values of the tick counter at start-up from which it wraps within the   *)
(* first ticks, within the debounce time and within the repeat delay.      *)
WrapStarts == {TickMax - 1, TickMax - 35, TickMax - 545}
WrapSystems == {"deb", "rpt", "gt"}
(* Number of 10 ms samples of the runs of the repeat handler. *)
MaxWrapPasses == 80

InitWrap ==
  /\ kbd_init(FALSE)
  /\ \E s \in WrapSystems : InitHdlSys(DefaultCfg, s)
  /\ \E c \in WrapStarts : InitBufAt(c)
  /\ InitMonIdle

NextWrap ==
  \/ \E k \in DebKeys, d \in DebGaps : shadow.sys = "deb" /\ kbd_debHandlerFunc(k, d)
  \/ \E k \in RptKeys :
       /\ shadow.sys = "rpt"
       /\ elapsed < MaxWrapPasses * ms_to_ticks(KBD_CHECK_INTERVAL)
       /\ kbd_rptHandlerFunc(k)
  \/ shadow.sys = "gt" /\ NextBuf

SpecWrap == InitWrap /\ [][NextWrap]_vars

(* A tick of the run is the tick of the run that starts at 0, shifted by   *)
(* the value of the counter at start-up; statics not yet written are 0 in  *)
(* both runs.                                                              *)
Shifted(t, u) == t = TickAdd(ClockAtStart, u) \/ (t = 0 /\ u = 0)
(* The counter has wrapped since start-up. *)
Wrapped == clock < ClockAtStart

SameDebounce ==
  /\ debounce_key = shadow.dk /\ new_key = shadow.nk /\ out_key = shadow.out
  /\ Shifted(debounce_time, shadow.dt)

SameRepeat ==
  /\ kbd_rptStatus = shadow.rs /\ repeat_rate = shadow.rr /\ out_key = shadow.out
  /\ Shifted(repeat_time, shadow.rt)

(* kbd_get_timeout goes on polling exactly while fewer than stop ticks     *)
(* have passed since it read start.                                        *)
SameTimeout ==
  (pc = "gt_check" /\ pc' # pc) => ((pc' = "peek_disable") <=> (elapsed - gt_el < stop))

\* C18: on a tick counter that wraps around during the run, Debounce,
\* Repeat and kbd_get_timeout return the same outputs and make the same
\* state transitions as in the same run on a counter that starts at 0 and
\* does not wrap, the ticks they store being shifted by the start value.
C18_WrapSafe ==
  /\ [](shadow.sys = "deb" => SameDebounce)
  /\ [](shadow.sys = "rpt" => SameRepeat)
  /\ [][shadow.sys = "gt" => SameTimeout]_vars

(* A key seen before the counter wrapped is promoted after it wrapped. *)
C18_Witness ==
  /\ shadow.sys = "deb" /\ Wrapped
  /\ out_key # NoKey /\ prev_out = NoKey
  /\ TickAdd(ClockAtStart, streak_el) > 0 /\ TickAdd(ClockAtStart, call_el) < 0

(* The repeat handler emits after the counter wrapped during the repeat    *)
(* delay.                                                                  *)
C18_WitnessRepeat ==
  /\ shadow.sys = "rpt" /\ Wrapped
  /\ out_key \cap K_REPEAT # {} /\ repeat_time < 0 /\ ClockAtStart = TickMax - 545

(* kbd_get_timeout times out after the counter wrapped during the wait. *)
C18_WitnessTimeout ==
  /\ shadow.sys = "gt" /\ Wrapped
  /\ pc = "returned" /\ api = "kbd_get_timeout" /\ ret = K_TIMEOUT
  /\ start > 0 /\ stop > 0

(***************************************************************************)
(* Critical sections of the keyboard API                                   *)
(***************************************************************************)
(* What the steps below, which write irq and cs only, leave alone. *)
notIrq == <<chainVars, kbd_buf, kbd_cnt, beeped, clock, conVars, bufHist, debVars, rptVars,
            hdlHist, monVars, sftVars, sftHist, cfg, shadow, scan>>

(* The caller disables or enables interrupts between two API calls; irq0   *)
(* is the state it has set, and it makes a call in that state.             *)
CallerIrq ==
  /\ pc = "idle" /\ cs.op = "none"
  /\ irq' = ~irq
  /\ cs' = [cs EXCEPT !.irq0 = ~irq]
  /\ UNCHANGED notIrq

(* kbd_addHandler: IRQ_SAVE_DISABLE(flags), the insertion, IRQ_RESTORE(flags). *)
add_save(h, p, f) ==
  /\ pc = "idle" /\ cs.op = "none" /\ irq = cs.irq0
  /\ h \notin Registered
  /\ cs' = [cs EXCEPT !.op = "add", !.h = h, !.p = p, !.f = f, !.flags = irq]
  /\ irq' = FALSE
  /\ UNCHANGED notIrq

add_link ==
  /\ cs.op = "add" /\ ~irq
  /\ kbd_addHandler(cs.h, cs.p, cs.f)

add_restore ==
  /\ cs.op = "add" /\ cs.h \in Registered
  /\ irq' = cs.flags
  /\ cs' = NoCall(cs.irq0)
  /\ UNCHANGED notIrq

(* kbd_remHandler: ATOMIC(REMOVE(&handler->link)), that is                 *)
(* IRQ_SAVE_DISABLE(flags), the removal, IRQ_RESTORE(flags).               *)
rem_save(h) ==
  /\ pc = "idle" /\ cs.op = "none" /\ irq = cs.irq0
  /\ h \in Registered
  /\ cs' = [cs EXCEPT !.op = "rem", !.h = h, !.flags = irq]
  /\ irq' = FALSE
  /\ UNCHANGED notIrq

rem_unlink ==
  /\ cs.op = "rem" /\ ~irq
  /\ kbd_remHandler(cs.h)

rem_restore ==
  /\ cs.op = "rem" /\ cs.h \notin Registered
  /\ irq' = cs.flags
  /\ cs' = NoCall(cs.irq0)
  /\ UNCHANGED notIrq

InitIrq == kbd_init(FALSE) /\ InitHdl /\ InitBufAt(0) /\ InitMonIdle

NextIrq ==
  \/ CallerIrq
  \/ \E a \in SftAdds : add_save(a[1], a[2], a[3])
  \/ add_link
  \/ add_restore
  \/ \E h \in SftHandlers : rem_save(h)
  \/ rem_unlink
  \/ rem_restore
  \/ cs.op = "none" /\ irq = cs.irq0 /\ CallPeek
  \/ peek_disable \/ peek_test \/ peek_dec \/ peek_read \/ peek_enable
  \/ kbd_peek_ret
  \/ Resume
  \/ \E k \in SinkKeys : kbd_defHandlerFunc(k)

SpecIrq == InitIrq /\ [][NextIrq]_vars

(* The latest API call has returned and its caller has not yet changed     *)
(* the interrupt state again.                                              *)
Returned == pc \in {"idle", "returned"} /\ cs.op = "none"

\* C21 as stated: kbd_peek, kbd_addHandler and kbd_remHandler return with
\* interrupts enabled or disabled as they were when the call was made.
C21_AsStated == Returned => irq = cs.irq0

(* kbd_addHandler and kbd_remHandler return with interrupts as they were   *)
(* at the call; kbd_peek returns with interrupts enabled.                  *)
C21_Restored ==
  /\ [][(cs.op # "none" /\ cs'.op = "none") => irq' = cs.irq0]_vars
  /\ [][(pc = "peek_enable" /\ pc' # pc) => irq']_vars

(* kbd_peek has returned to a caller that had disabled interrupts. *)
C21_Witness == pc = "returned" /\ api = "kbd_peek" /\ ~cs.irq0 /\ irq

(* kbd_addHandler has returned to a caller that had disabled interrupts. *)
C21_WitnessAdd == Returned /\ lastAdded # "" /\ ~cs.irq0 /\ ~irq /\ api = "none"

(***************************************************************************)
(* Stack monitor: monitor_checkStack, statement by statement               *)
(***************************************************************************)
(* Stack sizes (bytes) explored, from 0, and the number of cells of the    *)
(* memory below stack_base and above the stack that the model holds.       *)
MaxScanBytes == 9
ScanPad == 2
ScanCells(size) == (-ScanPad)..((size \div SIZEOF_CPUSTACK_T) - 1 + ScanPad)
Outside(size) == ScanCells(size) \ CellsOf(size)

notScan == <<chainVars, bufVars, conVars, bufHist, debVars, rptVars, hdlHist, sftVars, sftHist,
             cfg, shadow, cs>>

(* beg = stack_base; end = stack_base + stack_size / sizeof(cpustack_t) - 1; *)
(* the exchange when the stack grows upward; cur = beg.  o is the memory   *)
(* next to the stack of p when the call is made.                           *)
scan_begin(p, o) ==
  /\ scan.pc = "idle"
  /\ LET first == 0
         last  == 0 + (stack_size[p] \div SIZEOF_CPUSTACK_T) - 1
         beg   == IF grows_up THEN last ELSE first
         end   == IF grows_up THEN first ELSE last
     IN  scan' = [pc |-> "loop",
                  mem |-> [i \in ScanCells(stack_size[p]) |->
                             IF i \in CellsOf(stack_size[p]) THEN stack_mem[p][i] ELSE o[i]],
                  beg |-> beg, end |-> end, cur |-> beg, reads |-> {}]
  /\ aproc' = p
  /\ UNCHANGED <<stkVars, regVars, sp_free, running, forbid_cnt, mpc, mnode, rpc, rnode, apc,
                 monHist>>
  /\ UNCHANGED notScan

(* One evaluation of while (cur != end) and of the loop body.  A scan      *)
(* that leaves the memory the model holds goes on in memory it does not    *)
(* hold ("off").                                                           *)
scan_loop ==
  /\ scan.pc = "loop"
  /\ scan' =
       IF scan.cur = scan.end THEN [scan EXCEPT !.pc = "ret"]
       ELSE IF scan.cur \notin DOMAIN scan.mem
         THEN [scan EXCEPT !.pc = "off", !.reads = @ \cup {scan.cur}]
       ELSE IF scan.mem[scan.cur] # FILL
         THEN [scan EXCEPT !.pc = "ret", !.reads = @ \cup {scan.cur}]
       ELSE [scan EXCEPT !.cur = IF grows_up THEN @ - 1 ELSE @ + 1,
                         !.reads = @ \cup {scan.cur}]
  /\ UNCHANGED <<monVars, notScan>>

(* sp_free = ABS(cur - beg) * sizeof(cpustack_t); return sp_free; *)
scan_return ==
  /\ scan.pc = "ret"
  /\ sp_free' = Abs(scan.cur - scan.beg) * SIZEOF_CPUSTACK_T
  /\ scan' = [scan EXCEPT !.pc = "done"]
  /\ UNCHANGED <<stkVars, regVars, running, forbid_cnt, mpc, mnode, rpc, rnode, apc, aproc,
                 monHist>>
  /\ UNCHANGED notScan

InitScan ==
  /\ kbd_init(FALSE) /\ InitBufAt(0) /\ InitHdl
  /\ \E up \in BOOLEAN, sz \in 0..MaxScanBytes :
       \E m \in [CellsOf(sz) -> {FILL, DATA}] :
         InitMonWith(up,
                     [p \in Procs |-> IF p = "p1" THEN sz ELSE StackBytesP2],
                     [p \in Procs |-> IF p = "p1" THEN m ELSE Filled(StackBytesP2)])

NextScan ==
  \/ \E o \in [Outside(stack_size["p1"]) -> {FILL, DATA}] : scan_begin("p1", o)
  \/ scan_loop
  \/ scan_return

SpecScan == InitScan /\ [][NextScan]_vars

(* The cells of the region [stack_base, stack_base + stack_size) of the    *)
(* stack being scanned.                                                    *)
Region == CellsOf(stack_size[aproc])
InRegion == scan.reads \subseteq Region /\ scan.pc # "off"

\* C22 as stated: for every stack size, a size smaller than one cell
\* included, and both growth directions, monitor_checkStack reads only
\* cells of the stack region (and so ends within it).
C22_AsStated == scan.pc # "idle" => InRegion

(* For a stack of at least one cell it does, and returns what the scan of  *)
(* the region gives; for one cell it reads nothing.                        *)
C22_InRegion ==
  (scan.pc # "idle" /\ stack_size[aproc] >= SIZEOF_CPUSTACK_T) =>
    /\ InRegion
    /\ scan.pc = "done" =>
         sp_free = monitor_checkStack(stack_mem[aproc], stack_size[aproc], grows_up)
    /\ stack_size[aproc] \div SIZEOF_CPUSTACK_T = 1 => scan.reads = {}

(* On a stack smaller than one cell the scan reads the cell at stack_base, *)
(* which is not within stack_size bytes, and the cells after it, and       *)
(* returns more than stack_size.                                           *)
C22_Witness ==
  /\ scan.pc = "done" /\ stack_size[aproc] < SIZEOF_CPUSTACK_T /\ ~grows_up
  /\ scan.reads = {0, 1} /\ sp_free > stack_size[aproc]

(* It leaves the memory around the stack when that memory holds the fill   *)
(* code.                                                                   *)
C22_WitnessOff ==
  /\ scan.pc = "off" /\ stack_size[aproc] < SIZEOF_CPUSTACK_T /\ grows_up

(* A scan of a stack of two cells. *)
C22_WitnessTwo ==
  /\ scan.pc = "done" /\ stack_size[aproc] \div SIZEOF_CPUSTACK_T = 2 /\ scan.reads # {}
====
